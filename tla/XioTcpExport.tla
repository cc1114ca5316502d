---------------------------- MODULE XioTcpExport ----------------------------
(***************************************************************************)
(* Class xiomas_tcp_export (src/Xiomas/xiomas_export.{h,cc}): serio packets *)
(* made from the imagery of the Xiomas instrument wait in a circular       *)
(* buffer and go to tm_ip_export over TCP, a window of unacknowledged      *)
(* bytes at a time.                                                        *)
(*                                                                         *)
(* The program is one thread with an event loop.  pc says where it is:     *)
(* "loop" is between two callbacks; "pq" is at the top of the for(;;) of   *)
(* process_queue(), so that each round is a step of its own; "dead" is     *)
(* after the use of a wild pointer.  Everything else, the library's writes *)
(* and reads on the socket included, is served between two callbacks.      *)
(*                                                                         *)
(* The byte counts obuf, inflight and lost follow what was written to the  *)
(* socket: obuf bytes are retained by the library (obuf_empty() is         *)
(* obuf = 0), inflight ones are with the kernel or the peer and not yet    *)
(* acknowledged, lost ones went with a connection that broke.              *)
(***************************************************************************)
EXTENDS XioCirc

CONSTANTS
  HdrSize,    \* sizeof(serio_pkt_hdr)
  MaxData,    \* MAX_SPKT_DATA_PER_SERIO_PKT (956 in the code)
  Window,     \* the 2000 of CTS()
  Clients,    \* the xiomas_tcp_rcvr objects that may ask for an ack
  NoClient,   \* the null pointer
  WildClient, \* any other value of uninitialised memory
  AckExcess,  \* how far an ACK may exceed what is in flight: 0 for a peer
              \* that keeps the protocol
  MaxBytes,   \* bound: bytes ever offered to the buffer
  MaxDrops    \* bound: connections that break

ASSUME ExportAssumption ==
  /\ HdrSize \in Nat \ {0} /\ MaxData \in Nat \ {0} /\ Window \in Nat \ {0}
  /\ AckExcess \in Nat /\ MaxBytes \in Nat /\ MaxDrops \in Nat
  /\ NoClient \notin Clients /\ WildClient \notin Clients
  /\ NoClient # WildClient

VARIABLES
  q,            \* circ, circ_head, circ_tail
  outstanding,  \* outstanding_bytes
  client,       \* the receiver to ack once the queue is empty
  caller,       \* the receiver that calls request_ack() when process_queue()
                \* returns to it, NoClient if none will
  pc, conn,     \* conn: the connection to tm_ip_export is "up" or "down"
  obuf, inflight, lost, drops,
  written,      \* history: bytes the buffer accepted
  sent,         \* history: bytes handed to iwrite()
  inOrder,      \* history: every byte handed over was the next one accepted
  wrapped,      \* history: some commit needed its second span
  trusted       \* history: no ACK was for more than was in flight

queueVars == <<q, written, wrapped>>
netVars == <<conn, obuf, inflight, lost, drops>>
vars == <<q, outstanding, client, caller, pc, netVars,
          written, sent, inOrder, wrapped, trusted>>

MaxChunk == MaxData + HdrSize

\* client is missing from the constructor's initialisers, so it starts as
\* whatever the heap held.
Init ==
  /\ q = NewBuffer /\ outstanding = 0
  /\ client \in {NoClient, WildClient} /\ caller = NoClient
  /\ pc = "loop" /\ conn = "down"
  /\ obuf = 0 /\ inflight = 0 /\ lost = 0 /\ drops = 0
  /\ written = 0 /\ sent = 0 /\ inOrder = TRUE /\ wrapped = FALSE
  /\ trusted = TRUE

CTS == outstanding < Window /\ obuf = 0

-----------------------------------------------------------------------------
(* The program.                                                            *)

\* forward_packet() up to process_queue(): the header, then n data bytes.
\* c is the receiver whose packet these bytes complete, or NoClient.
WithHeader == circ_commit(q, written + 1, HdrSize)
HeaderTaken == Accepted(q, HdrSize)

ForwardPacket(n, c) ==
  /\ pc = "loop"
  /\ written + HdrSize + n <= MaxBytes
  /\ q' = circ_commit(WithHeader, written + HeaderTaken + 1, n)
  /\ written' = written + HeaderTaken + Accepted(WithHeader, n)
  /\ wrapped' = (wrapped \/ Wraps(q, HdrSize) \/ Wraps(WithHeader, n))
  /\ pc' = "pq" /\ caller' = c
  /\ UNCHANGED <<outstanding, client, netVars, sent, inOrder, trusted>>

\* One round of process_queue() that transmits; r of the bytes stay in the
\* library's output buffer.  Without a connection they go nowhere.
ChunkSize == Smaller(circ_length(q), MaxChunk)

PqTransmit ==
  /\ pc = "pq" /\ CTS /\ circ_length(q) > 0
  /\ q' = circ_transmit(q, ChunkSize)
  /\ outstanding' = outstanding + ChunkSize
  /\ inOrder' = (inOrder /\ TransmitsFrom(q, ChunkSize, sent + 1))
  /\ sent' = sent + ChunkSize
  /\ \/ /\ conn = "up"
        /\ \E r \in 0 .. ChunkSize :
              obuf' = r /\ inflight' = inflight + (ChunkSize - r)
        /\ UNCHANGED lost
     \/ /\ conn = "down"
        /\ lost' = lost + ChunkSize
        /\ UNCHANGED <<obuf, inflight>>
  /\ UNCHANGED <<client, caller, pc, conn, drops, written, wrapped,
                 trusted>>

\* Mutants: the client acked though the queue is not empty; the client kept
\* after its ack.
AckedAnyway == client
WaitingKept == client

\* The last round: process_queue() acks the waiting receiver if the queue is
\* empty, and returns, perhaps to a receiver that calls request_ack().
AckedNow == IF circ_length(q) = 0 THEN client ELSE NoClient
Waiting == IF circ_length(q) = 0 THEN NoClient ELSE client

PqReturn ==
  /\ pc = "pq" /\ ~(CTS /\ circ_length(q) > 0)
  /\ IF AckedNow = WildClient \/ (caller # NoClient /\ Waiting = WildClient)
     THEN pc' = "dead" /\ UNCHANGED client
     ELSE /\ pc' = "loop"
          /\ client' = IF caller # NoClient THEN caller ELSE Waiting
  /\ caller' = NoClient
  /\ UNCHANGED <<queueVars, outstanding, netVars, sent, inOrder, trusted>>

\* request_ack() from a receiver whose packet was not forwarded.
RequestAck(c) ==
  /\ pc = "loop"
  /\ IF client = WildClient THEN pc' = "dead" /\ UNCHANGED client
     ELSE client' = c /\ UNCHANGED pc
  /\ UNCHANGED <<queueVars, outstanding, caller, netVars, sent, inOrder,
                 trusted>>

\* Mutants: no test for an ACK of more than was sent; an ACK that counts only
\* when it covers everything; an ACK taken to cover everything.
AcknowledgeUnchecked(n) == outstanding' = (outstanding - n) % Word
AcknowledgeWholeOnly(n) ==
  outstanding' = IF n >= outstanding THEN 0 ELSE outstanding
AcknowledgeAll(n) == outstanding' = 0

\* app_input() with a control packet of subtype ACK.
Acknowledge(n) ==
  outstanding' = IF n > outstanding THEN 0 ELSE outstanding - n

\* Mutant: the ACK does not call process_queue().
AckOnly(n) ==
  /\ pc = "loop" /\ conn = "up"
  /\ n \in 1 .. inflight + AckExcess
  /\ Acknowledge(n)
  /\ inflight' = inflight - Smaller(n, inflight)
  /\ trusted' = (trusted /\ n <= inflight)
  /\ UNCHANGED <<queueVars, client, caller, pc, conn, obuf, lost, drops, sent,
                 inOrder>>

AppInputAck(n) ==
  /\ pc = "loop" /\ conn = "up"
  /\ n \in 1 .. inflight + AckExcess
  /\ Acknowledge(n)
  /\ inflight' = inflight - Smaller(n, inflight)
  /\ trusted' = (trusted /\ n <= inflight)
  /\ pc' = "pq"
  /\ UNCHANGED <<queueVars, client, caller, conn, obuf, lost, drops, sent,
                 inOrder>>

-----------------------------------------------------------------------------
(* The library, the kernel and the peer.                                   *)

\* The library writes what it retained when the socket is writable, which is
\* an event of the loop; process_queue() is not called.
Drain ==
  /\ pc = "loop" /\ conn = "up" /\ obuf > 0
  /\ inflight' = inflight + obuf /\ obuf' = 0
  /\ UNCHANGED <<queueVars, outstanding, client, caller, pc, conn, lost,
                 drops, sent, inOrder, trusted>>

\* The connection breaks: nothing of the class is told, so that
\* outstanding_bytes still counts what was in flight.
Drop ==
  /\ pc = "loop" /\ conn = "up" /\ drops < MaxDrops
  /\ conn' = "down" /\ drops' = drops + 1
  /\ lost' = lost + obuf + inflight
  /\ obuf' = 0 /\ inflight' = 0
  /\ UNCHANGED <<queueVars, outstanding, client, caller, pc, sent, inOrder,
                 trusted>>

Connect ==
  /\ pc = "loop" /\ conn = "down"
  /\ conn' = "up"
  /\ UNCHANGED <<queueVars, outstanding, client, caller, pc, obuf, inflight,
                 lost, drops, sent, inOrder, trusted>>

-----------------------------------------------------------------------------
Callers == Clients \cup {NoClient}

ProcessQueue == PqTransmit \/ PqReturn
Ack == \E n \in 1 .. inflight + AckExcess : AppInputAck(n)
AckInFlight == \E n \in 1 .. inflight : AppInputAck(n)
Environment == Drain \/ Drop \/ Connect

Next ==
  \/ \E n \in 1 .. MaxData, c \in Callers : ForwardPacket(n, c)
  \/ \E c \in Clients : RequestAck(c)
  \/ ProcessQueue
  \/ Ack
  \/ Environment

Spec == Init /\ [][Next]_vars

\* The thread runs on while it has work.  A round of the event loop serves
\* every descriptor that is ready, so that packets from the instrument cannot
\* keep the library from writing what it retains, from reading the ACKs the
\* peer sends for what it received, and from reconnecting: strong fairness,
\* because a callback disables all three while it runs.
Fairness == /\ WF_vars(ProcessQueue)
            /\ SF_vars(Drain) /\ SF_vars(Connect) /\ SF_vars(AckInFlight)

FairSpec == Spec /\ Fairness

-----------------------------------------------------------------------------
(* What must hold of it.                                                   *)

\* Every variable has its type; between callbacks nobody is about to call
\* request_ack(), and what the library retains fits one serio packet.
TypeOK ==
  /\ q \in Buffers
  /\ outstanding \in Nat
  /\ client \in Callers \cup {WildClient}
  /\ caller \in Callers
  /\ pc \in {"loop", "pq", "dead"} /\ conn \in {"up", "down"}
  /\ obuf \in 0 .. MaxChunk
  /\ inflight \in Nat /\ lost \in Nat /\ drops \in 0 .. MaxDrops
  /\ written \in 0 .. MaxBytes /\ sent \in Nat
  /\ inOrder \in BOOLEAN /\ wrapped \in BOOLEAN /\ trusted \in BOOLEAN
  /\ pc # "pq" => caller = NoClient

\* No nl_assert of circ_commit(), circ_transmit() and circ_consume() fires and
\* no memcpy or iwrite leaves the array, whatever packet comes next and
\* whatever the queue holds: also after a commit that wrapped and left a
\* tail that does not agree with the contents.
BufferSafe ==
  /\ CommitAsserts(q, HdrSize) /\ CommitInBounds(q, HdrSize)
  /\ \A n \in 1 .. MaxData : /\ CommitAsserts(WithHeader, n)
                              /\ CommitInBounds(WithHeader, n)
  /\ circ_length(q) > 0 => /\ TransmitAsserts(q, ChunkSize)
                           /\ TransmitInBounds(q, ChunkSize)

\* process_queue() never runs ahead of the acknowledgements by more than the
\* window and one packet, and an ACK for more than was sent does not make
\* outstanding_bytes wrap below zero.
OutstandingBounded == outstanding \in 0 .. Window + MaxChunk - 1

\* While no ACK was for more than was in flight outstanding_bytes is exactly
\* what is on its way or went with a broken connection: the bytes of a lost
\* connection narrow the window for good.
OutstandingAccounts == trusted => outstanding = obuf + inflight + lost

\* When a callback returns with data still queued, bytes are on their way over
\* a connection that is up, so that the peer owes an ACK for them: nothing else
\* than that ACK (or another packet) calls process_queue() again.  (Until a
\* connection loses bytes or an ACK is for more than was in flight: after a
\* loss outstanding_bytes may close the window with no ACK to come.)
AckIsOwed ==
  trusted /\ lost = 0 /\ pc = "loop" /\ circ_length(q) > 0 =>
    conn = "up" /\ obuf + inflight > 0

\* Until a commit wraps, the bytes leave in the order they came in, each once,
\* and circ_length() is the number of bytes queued.
FifoUntilWrap ==
  ~wrapped => inOrder /\ circ_length(q) = written - sent

\* The queue always drains, unless a connection broke with bytes on their way,
\* an ACK was for more than was in flight, or client was wild.
QueueDrains ==
  circ_length(q) > 0
    ~> circ_length(q) = 0 \/ lost > 0 \/ ~trusted \/ pc = "dead"

(* What a comment of the source says of it, and the code does not do.      *)

\* "@returns number of bytes of data currently in the buffer" (circ_length).
LengthAsDocumented == circ_length(q) = written - sent
=============================================================================
