---------------------------- MODULE NephexExport ----------------------------
(***************************************************************************)
(* nephex_export (src/Nephex/nephex_export.{h,cc}): the packets of the     *)
(* nephelometer, found in its TCP stream by class nephex_tcp_rcvr,         *)
(* decimated by class APid, and sent to tm_ip_export, a window of          *)
(* unacknowledged bytes at a time, by class nephex_tcp_export.             *)
(*                                                                         *)
(* The stream is a sequence of tokens: a byte 0xAA, another byte, or the   *)
(* six bytes of a primary header, which carry an APID and a length.  What  *)
(* the receiver takes for a header when it lost its place is a header with *)
(* an unknown APID and the length GarbageLen.  The instrument, the peer    *)
(* tm_ip_export and the library are external.  One callback runs at a      *)
(* time: busy says that it is protocol_input() of the receiver, each turn  *)
(* of whose loop is a step.                                                *)
(***************************************************************************)
EXTENDS Sequences, FiniteSetsExt, Integers

CONSTANTS
  MaxApid,     \* MAX_APID
  Apids,       \* what the ten bits of an APID may be
  Size, Rate,  \* of each known APID, by def(): its size and decimation_rate
  Lens,        \* the values of Len in the instrument's headers
  GarbageLen,
  MaxLen,      \* the most that the two bytes of Len can say
  TimeLen,     \* the 6 that is not counted by Size
  HdrSize,     \* serio::pkt_hdr_size
  Frame,       \* the 9 bytes of a packet that Len does not count
  Window,      \* 2000
  BufSize,     \* RCVR_BUFSIZE
  Prefixes,    \* what a connection may begin with before a packet
  Fillers,     \* what the first byte of a payload may be
  MaxPackets,  \* bound: packets the instrument ever sends
  MaxDrops     \* bound: times the peer's connection breaks

VARIABLES
  stream, buf, \* sent by the instrument, and buf[cp..nc)
  link,        \* the instrument's connection: "up" or "down"
  busy,
  n_to_skip, reported,   \* of defs
  outstanding, \* outstanding_bytes
  conn,        \* the peer's connection: "up" or "down"
  obuf, inflight,        \* bytes in the library, and sent but not acked
  lost, drops, \* history: bytes that went with broken connections; breaks
  toSend,      \* packets the instrument may still send
  clean,       \* history: the connection began with a packet
  skipped      \* history: packets of each APID that came while CTS() held
               \* and were not forwarded, since one was

peerVars == <<conn, obuf, inflight, lost, drops>>
tableVars == <<n_to_skip, reported, skipped>>
instVars == <<stream, link, toSend, clean>>
vars == <<instVars, buf, busy, tableVars, outstanding, peerVars>>

Known == 0 .. MaxApid

\* Tokens; starts marks the first byte of a packet.
Tokens ==
  [kind : {"aa", "x"}, starts : BOOLEAN]
  \cup [kind : {"header"}, starts : {FALSE}, apid : Nat, len : 0 .. MaxLen]

ASSUME NephexAssumption ==
  /\ MaxApid \in Nat /\ Apids \subseteq Nat
  /\ Size \in [Known -> Nat] /\ Rate \in [Known -> Nat]
  /\ MaxLen \in Nat /\ Lens \subseteq 0 .. MaxLen /\ GarbageLen \in 0 .. MaxLen
  /\ Prefixes \subseteq Seq(Tokens)
  /\ Fillers \subseteq {"aa", "x"}
  /\ {TimeLen, HdrSize, Frame, BufSize} \subseteq Nat /\ Window \in Nat \ {0}
  /\ {MaxPackets, MaxDrops} \subseteq Nat

Byte(kind) == [kind |-> kind, starts |-> FALSE]
Header(apid, len) ==
  [kind |-> "header", starts |-> FALSE, apid |-> apid, len |-> len]
Packet(apid, len, filler) ==
  <<[Byte("aa") EXCEPT !.starts = TRUE], Byte("aa"), Header(apid, len)>>
  \o [i \in 1 .. len + 1 |-> Byte(IF i <= 2 THEN filler ELSE "x")]

Init ==
  /\ stream = <<>> /\ buf = <<>> /\ link = "down" /\ busy = FALSE
  /\ n_to_skip = [a \in Known |-> IF Rate[a] = 0 THEN 0 ELSE 1]
  /\ reported = [a \in Known |-> FALSE]
  /\ outstanding = 0 /\ conn = "down" /\ obuf = 0 /\ inflight = 0
  /\ lost = 0 /\ drops = 0
  /\ toSend = MaxPackets /\ clean = TRUE
  /\ skipped = [a \in Known |-> IF Rate[a] = 0 THEN 0 ELSE Rate[a] - 1]

-----------------------------------------------------------------------------
(* The instrument.                                                         *)

\* connected().  The instrument's stream begins anywhere.
ConnectInstrument ==
  /\ ~busy /\ link = "down"
  /\ \E s \in Prefixes : stream' = s /\ clean' = (s = <<>>)
  /\ link' = "up"
  /\ UNCHANGED <<buf, busy, toSend, tableVars, outstanding, peerVars>>

SendPacket ==
  /\ ~busy /\ link = "up" /\ toSend > 0
  /\ \E apid \in Apids, len \in Lens, filler \in Fillers :
        stream' = stream \o Packet(apid, len, filler)
  /\ toSend' = toSend - 1
  /\ UNCHANGED <<link, clean, buf, busy, tableVars, outstanding, peerVars>>

\* reset(), from protocol_timeout(): no packet came for 5 seconds, or from
\* process_eof().  The library forgets what it read and connects again.
Reset ==
  /\ ~busy /\ link = "up"
  /\ link' = "down" /\ stream' = <<>> /\ buf' = <<>>
  /\ UNCHANGED <<toSend, clean, busy, tableVars, outstanding, peerVars>>

-----------------------------------------------------------------------------
(* nephex_tcp_rcvr::protocol_input().                                      *)

Receive ==
  /\ ~busy /\ link = "up"
  /\ \E k \in 1 .. Len(stream) :
        /\ Len(buf) + k <= BufSize
        /\ buf' = buf \o SubSeq(stream, 1, k)
        /\ stream' = SubSeq(stream, k + 1, Len(stream))
  /\ busy' = TRUE
  /\ UNCHANGED <<link, toSend, clean, tableVars, outstanding, peerVars>>

From(i) == SubSeq(buf, i, Len(buf))

\* Where the loop may stop to look: at two bytes 0xAA, or at one at the end.
Syncs == {i \in 1 .. Len(buf) :
            /\ buf[i].kind = "aa"
            /\ i < Len(buf) => buf[i + 1].kind = "aa"}
Sync == IF Syncs = {} THEN Len(buf) + 1 ELSE Min(Syncs)

\* The header behind the sync word, and the last token of its packet.
Found ==
  LET t == buf[Sync + 2]
  IN IF t.kind = "header" THEN t ELSE Header(MaxApid + 1, GarbageLen)

\* Mutant: the length taken for what it says, without the one more.
LastTokenShort == Sync + 2 + Found.len
LastToken == Sync + 2 + Found.len + 1

HaveHeader == Sync + 2 <= Len(buf)
HavePacket == HaveHeader /\ LastToken <= Len(buf)

\* The loop ends: what may still become a packet is kept.
Return ==
  /\ busy /\ ~HavePacket
  /\ buf' = From(Sync) /\ busy' = FALSE
  /\ UNCHANGED <<instVars, tableVars, outstanding, peerVars>>

\* Mutant: some bytes may be on their way in the library.
CTSWindowOnly == outstanding < Window
CTS == outstanding < Window /\ obuf = 0

\* get_size() of an unknown APID is 0.
get_size(apid) == IF apid > MaxApid THEN 0 ELSE Size[apid]

\* not_reported(), of a packet whose length is not what its APID has.  It
\* indexes defs with any APID; what is read and written behind the end of defs
\* is not modelled.
CheckLength(apid, len) ==
  reported' = IF get_size(apid) + TimeLen # len /\ apid <= MaxApid
              THEN [reported EXCEPT ![apid] = TRUE] ELSE reported

LeftToSkip(apid) == n_to_skip[apid] - 1

\* OK_to_transmit(): OK is what it returns.
Decimated(apid) == apid <= MaxApid /\ Size[apid] # 0 /\ Rate[apid] # 0
OK(apid) == Decimated(apid) /\ LeftToSkip(apid) = 0
OK_to_transmit(apid) ==
  n_to_skip' = IF ~Decimated(apid) THEN n_to_skip
               ELSE [n_to_skip EXCEPT ![apid] =
                       IF OK(apid) THEN Rate[apid] ELSE LeftToSkip(apid)]

\* forward_packet(): some of the bytes may stay in the library; without a
\* connection they go nowhere.
Forward(n) ==
  /\ outstanding' = outstanding + n
  /\ \/ /\ conn = "up"
        /\ \E r \in 0 .. n : obuf' = obuf + r /\ inflight' = inflight + n - r
        /\ UNCHANGED lost
     \/ conn = "down" /\ lost' = lost + n /\ UNCHANGED <<obuf, inflight>>
  /\ UNCHANGED <<conn, drops>>

\* Mutant: OK_to_transmit() is called first, and CTS() after it.
CountsAlways == TRUE
Counts == CTS
Forwards == CTS /\ OK(Found.apid)

\* A whole packet, logged and perhaps forwarded.
TakePacket ==
  /\ busy /\ HavePacket
  /\ CheckLength(Found.apid, Found.len)
  /\ IF Counts THEN OK_to_transmit(Found.apid) ELSE UNCHANGED n_to_skip
  /\ IF Forwards THEN Forward(HdrSize + Found.len + Frame)
     ELSE UNCHANGED <<outstanding, peerVars>>
  /\ skipped' = IF CTS /\ Decimated(Found.apid)
                THEN [skipped EXCEPT ![Found.apid] =
                        IF Forwards THEN 0 ELSE @ + 1]
                ELSE skipped
  /\ buf' = From(LastToken + 1)
  /\ UNCHANGED <<instVars, busy>>

-----------------------------------------------------------------------------
(* nephex_tcp_export::app_input(), the library and the peer.               *)

\* Mutants: no test for an ACK of more than was sent; an ACK that counts only
\* when it covers everything.
AcknowledgeWholeOnly(n) ==
  outstanding' = IF n >= outstanding THEN 0 ELSE outstanding
AcknowledgeOver(n) == outstanding' = outstanding - n
Acknowledge(n) ==
  outstanding' = IF n > outstanding THEN 0 ELSE outstanding - n

\* An ACK of some of what is in flight; the peer may count more than it
\* received, by one.
AppInput ==
  /\ ~busy /\ conn = "up" /\ inflight > 0
  /\ \E n \in 1 .. inflight + 1 :
        Acknowledge(n) /\ inflight' = IF n > inflight THEN 0 ELSE inflight - n
  /\ UNCHANGED <<instVars, buf, busy, tableVars, conn, obuf, lost, drops>>

Drain ==
  /\ ~busy /\ conn = "up" /\ obuf > 0
  /\ inflight' = inflight + obuf /\ obuf' = 0
  /\ UNCHANGED <<instVars, buf, busy, tableVars, outstanding, conn, lost,
                 drops>>

\* Nothing of the class is told of a broken connection.
Drop ==
  /\ ~busy /\ conn = "up" /\ drops < MaxDrops
  /\ conn' = "down" /\ drops' = drops + 1
  /\ lost' = lost + obuf + inflight /\ obuf' = 0 /\ inflight' = 0
  /\ UNCHANGED <<instVars, buf, busy, tableVars, outstanding>>

ConnectPeer ==
  /\ ~busy /\ conn = "down" /\ conn' = "up"
  /\ UNCHANGED <<instVars, buf, busy, tableVars, outstanding, obuf, inflight,
                 lost, drops>>

-----------------------------------------------------------------------------
Loop == Return \/ TakePacket
Next ==
  \/ ConnectInstrument \/ SendPacket \/ Reset
  \/ Receive \/ Loop
  \/ AppInput \/ Drain \/ Drop \/ ConnectPeer

Spec == Init /\ [][Next]_vars

\* The loop of events serves the peer's socket whatever the instrument sends;
\* the peer acks what it receives.
Fairness ==
  /\ WF_vars(Loop)
  /\ SF_vars(AppInput) /\ SF_vars(Drain) /\ SF_vars(ConnectPeer)

FairSpec == Spec /\ Fairness

-----------------------------------------------------------------------------
(* What must hold of it.                                                   *)

\* Every variable has its type; n_to_skip never runs below zero.
TypeOK ==
  /\ link \in {"up", "down"} /\ busy \in BOOLEAN
  /\ stream \in Seq(Tokens) /\ buf \in Seq(Tokens) /\ Len(buf) <= BufSize
  /\ n_to_skip \in [Known -> Nat] /\ reported \in [Known -> BOOLEAN]
  /\ outstanding \in Nat /\ conn \in {"up", "down"}
  /\ obuf \in Nat /\ inflight \in Nat /\ lost \in Nat /\ drops \in 0 .. MaxDrops
  /\ toSend \in 0 .. MaxPackets /\ clean \in BOOLEAN
  /\ skipped \in [Known -> Nat]

\* However the stream is cut into reads, and whatever bytes 0xAA the payloads
\* hold, a receiver that began with a packet stays at the packets.
FramingKept == clean /\ buf # <<>> => Head(buf).starts

\* Decimation counts the packets that come while the peer keeps up, and no
\* packet that is dropped because it does not, however they mix: of each APID
\* the first of them goes out (as if Rate - 1 had been held back before), then
\* every Rate-th.
DecimationKept ==
  \A a \in Known : Decimated(a) =>
    n_to_skip[a] >= 1 /\ skipped[a] + n_to_skip[a] = Rate[a]

\* The program runs ahead of the acks by one packet at most, and the library
\* keeps no second packet while one waits.
WindowKept ==
  LET most == HdrSize + Frame + MaxLen
  IN outstanding < Window + most /\ obuf <= most

\* A peer that answers is sent packets again and again: the window opens,
\* unless a whole window went with connections that broke.
WindowOpens == ~CTS ~> CTS \/ lost >= Window
=============================================================================
