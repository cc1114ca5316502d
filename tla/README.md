# COSMID payload software: a verification project in TLA+

The repository is the software of the COSMID balloon payload: programs that
take the data of three instruments (the Xiomas thermal imager, the
nephelometer, two POPS particle counters), put some of it into the telemetry
frame, forward the rest as *serio* packets to `tm_ip_export`, and obey commands
from the ground or from the payload's algorithm. Its programs are
single-threaded, each an event loop of the `dasio` library that calls back into
the classes of this repository. What is difficult in them is not parallelism
inside a program. It is what happens between two callbacks: data cut anywhere
by a read, several parties that each have an idea of the other's state,
windows that only an acknowledgement opens, connections that break with data on
their way, and a status that is read now and acted on later.

This directory holds models of those parts, the TLC runs that check them, and
proofs about all of them. Paths and line numbers below are those of the
repository under `src/`.

## 1. The system

### Components, their state and their operations

| Component | State it keeps | Operations |
|---|---|---|
| `xiomas_tcp_export` (`Xiomas/xiomas_export.{h,cc}`) | circular buffer `circ`, `circ_head`, `circ_tail`; `outstanding_bytes`; `client` | `forward_packet`, `process_queue`, `app_input` (ACK), `request_ack`, `circ_*` |
| `xiomas_tcp_rcvr`, `xiomas_tcp_svc` (same) | `state`, `bytes_remaining_in_packet`, `transmitting_current_packet`, input buffer, timer | `protocol_input`, `ack`, `protocol_timeout`, `new_client` |
| `xiomas_udp_rcvr`, `xiomas_udp_txmtr`, `xiomas_udp_export` (same) | `pkts_recd`, `connect_requested`, `ack_pending` | `protocol_input`, `sendCTS`/`sendNCTS`, `forward_packet`, `app_input` |
| `XioHarvGatewayPacket` (`Xiomas/XioHarvGatewayPacket.{h,cpp}`) | none: functions on a header | fill, read, check |
| `nephex_export` (`Nephex/nephex_export.{h,cc}`) | input buffer; the APID table (`n_to_skip`, `reported`); `outstanding_bytes` | `protocol_input`, `OK_to_transmit`, `not_reported`, `forward_packet`, `app_input`, resets |
| `nephex_emulator` (`Nephex/nephex_emulator.{h,cc}`) | `client`, the read flag, `packet_sn` | `set_client`, `reset_client`, `connected`, destructor, `protocol_input` |
| POPS driver (`POPS/POPS.{h,cc}`, `POPS_int.h`) | the frame `POPS`, `Stale`; `Srvr`, `srvr_Stale`; the connection and its timer | `UserPkts_UDP::protocol_input`, `POPS_client` (`forward`, `app_input`, `protocol_timeout`, `app_process_eof`, `tm_sync`), `POPS_Cmd::app_input` |
| `POPS_srvr` (`BBB/srvr/POPS_srvr.{h,cc}`), on the instrument's computer | `POPS_status`; per connection the input buffer | `protocol_input` (V, B, E, F, D, anything else), `send_status`, `send_shutdown` |
| The COSMID algorithm (`TM/cosmid.tma`) | the state of three partitions, the seconds each waited | one second of each partition: starts and stops the two POPS by `POPS_srvr` and `POPS2_srvr` in telemetry |
| Telemetry definitions, `TMAstat`, `coretemps`, set-up scripts, `eng`, `diag` | none | data, configuration, plots |

### How they interact

* The imager sends status packets as UDP datagrams and imagery over TCP. The
  UDP half forwards a status packet if `tm_ip_export` answered the last one and
  tells the imager with the flags CTS and NCTS to go on or hold off. The TCP
  half cuts the imagery into serio packets, keeps them in the circular buffer
  and sends them within a window of 2000 bytes that ACK packets open. The
  imager is told to go on (the receiver is *acked*) when the buffer is empty.
* `nephex_export` does the same with the nephelometer's packets, without a
  buffer: what the window does not let through is dropped, and APIDs are
  decimated.
* The POPS driver listens to the data of a POPS instrument, ages it with each
  telemetry frame, and keeps a TCP connection to the server on the instrument's
  computer: it forwards orders, polls the server when the data is old, and
  shows the server's status in telemetry. The algorithm on board reads that
  status and gives the orders.
* The server starts the POPS software, and stops it through a UDP datagram or
  the computer with `shutdown`.
* The algorithm sees of the two drivers only what is in the telemetry frame, and
  a driver that ended leaves its last frame there.
* `nephex_emulator` takes the nephelometer's place at the other end of
  `nephex_export`, which resets a silent connection after 5 seconds and
  connects again, whether or not the emulator noticed.

### What is hard, and what makes each part correct

* **Circular buffer.** Index arithmetic with a marker for "empty", two-span
  copies, unsigned differences. Correct: no assertion fires and no copy leaves
  the array; bytes leave once and in order.
* **Windows** (both exporters). Only an ACK, or the next packet, calls
  `process_queue()`. Correct: the window is kept, the count is exactly what is
  unacknowledged, data never waits with no ACK on its way, everything drains.
* **Receivers.** A decision made at a packet's header has to hold over many
  callbacks; a request for an ack comes after the call that might have served
  it. Correct: an accepted packet fits to its end, goes out whole, its receiver
  is acked after, not before, its delivery, and is acked.
* **Status packets.** Lost flags, answers that arrive in pieces. Correct: one
  packet at a time, and who is told to hold off is told to go on.
* **Driver and server.** Orders that were given up on are still executed;
  several commands get one reply; a computer loses its power. Correct: what
  telemetry shows is what the server is, one order halts nothing by mistake, a
  server that is gone is noticed and one that is there is found.
* **Algorithm.** Two partitions wait for one another's instruments by a
  telemetry that may be late or stuck, and a shutdown may come in any state.
  Correct: launches come in order, the shutdown reaches both instruments before
  the algorithm quits, and halts no computer under running software.
* **Emulator.** Objects are destroyed late and all of them share one
  registration. Correct: it never writes to an object that is gone, and an
  exporter it refused or forgot is served again.
* **Framing** of the nephelometer's stream and of a header. Correct: wherever
  reads cut it, and whatever payloads look like, packets are found; one wrong
  byte makes a header invalid.

`PROJECT.json` lists the hazards line by line.

## 2. The modules

| Module | Models | Kind | Theorems in |
|---|---|---|---|
| `XioCirc` | the circular buffer | operators | `XioTcpProofs` |
| `XioTcpExport` | `xiomas_tcp_export`, extends `XioCirc` | state machine, and the abstract specification that `XioTcp` implements | `XioTcpProofs` |
| `XioTcp`, `MCXioTcp` | receivers and listener, extends `XioTcpExport` | composition | `XioTcpProofs` |
| `XioUdp` | the UDP half | state machine | `XioUdpProofs` |
| `XioHarvHeader` | the functions on a header | pure algorithm | `XioUdpProofs` |
| `PopsStale` | the age of the frame, which both halves of the driver write | operators | `PopsProofs` |
| `PopsData` | `UserPkts_UDP`, extends `PopsStale` | state machine | `PopsProofs` |
| `PopsSrvr` | the server and its computer, any clients | state machine | `PopsSrvrProofs` |
| `Pops`, `MCPops` | `POPS_client` and `POPS_Cmd` against an instance of `PopsSrvr`, extends `PopsStale` | composition | `PopsProofs` |
| `PopsService` | what driver and server promise together | abstract specification, which `Pops` implements and on which `CosmidAlgo` runs | `PopsServiceProofs` |
| `CosmidAlgo` | the algorithm over two instances of `PopsService` | composition | `CosmidAlgoProofs` |
| `NephexExport` | `nephex_export` | state machine | `NephexLinkProofs` |
| `NephexEmulator` | who the emulator serves | state machine | `NephexLinkProofs` |
| `NephexLink`, `MCNephex` | the exporter (extends `NephexExport`) with the nephelometer or an instance of `NephexEmulator` at its other end | composition | `NephexLinkProofs` |
| `SumTheorems` | nothing: sums of a function over a finite set, for the proofs | lemmas | itself |

`MC` modules only give values to constants. A definition that begins with
"Mutant" in its comment is a plausible mistake in the code of the definition
below it; no specification uses it.

### `XioCirc` and `XioTcpExport`

A byte in the model is the position it has in everything the buffer ever
accepted, so that "the bytes leave in order, each once" can be said (`inOrder`,
`sent`, `written`). `circ_head`, `circ_tail` and the empty marker are the
code's, the arithmetic is modulo `Word` (2^32 in the code). `circ_commit` is
the two spans as written, with what the code does to the tail after the second;
`circ_transmit` is two spans at most, which the lemma `TransmitBuffer` shows to
be all there can be.

One action is one callback, but for `process_queue()`: each round of its loop
is a step (`PqTransmit`), and its end another (`PqReturn`), so that the model
shows what holds in between; nothing else runs meanwhile. The library may
retain any part of what is written (`obuf`), which closes `CTS()` until it
drains, and `Drain` does not call `process_queue()`, as in the code. A broken
connection loses what is on its way and `outstanding_bytes` is not told.
`client` starts as whatever the heap held, because the constructor does not
initialise it; after a call through a wild pointer the program is `"dead"`.
`trusted` is history: no ACK so far was for more than was in flight. The model
lets the peer break that (`AckExcess`), and the properties that need it say so.

### `XioTcp`

The module extends `XioTcpExport` and uses its state and actions as they are; what
it defines anew has names of its own (`TcpInit`, `TcpNext`, `TcpSpec`).
The instrument's bytes are tokens; a well formed header carries its length and
its RTS flag. A connection may begin anywhere in the stream (`Prefixes`), a
read takes any part of what is there, a connection may close in mid packet, and
the next may be made while the exporter still refers to the old receiver. Each
turn of `protocol_input()`'s loop is a step that uses the exporter's own
actions: `Pass` is the common end of the loop, with `forward_packet`
(`ForwardPacket`, then the exporter's rounds) and `request_ack`. What the
search passed over in a callback is kept (`seen`): if it ends at a header without
its first piece, the code returns without `report_ok()` (line 362), and all of
that is presented, and searched, again (`Unreported`). The exporter's abstract environment, any receiver at any time, is what the
composition refines: `ExporterSpec`, the exporter's `Spec`, is a property of
`TcpSpec`, checked and proved.

### `XioUdp`

Three classes and a datagram at a time. The flags are messages that may be
lost; answers come whole or in two pieces. An instrument either obeys NCTS or
not (`obeys`, chosen at the start).

### `XioHarvHeader`

The functions of `XioHarvGatewayPacket.cpp` on a header of sixteen bytes, a
byte having `Base` values, so that all values of the one-byte fields can be
enumerated. The loop that adds the bytes up in one byte is the sum modulo
`Base`, and a shift by 8 bits a division. Initial states are all filled headers
of a grid of lengths and counts, and the only step changes one byte. (The
module's `HdrInit` and `HdrSpec` have names of their own, so that its theorems
can stand beside those of `XioUdp`.)

### `PopsData`, `PopsSrvr`, `Pops`

`PopsData` keeps of a datagram whether it parses, whether its date does, and
how much the parser needed of it. Behind what a cut datagram left in the buffer
the parser may run out of input again, or empty the buffer (`PendingAfter`): that
depends on where the two were cut. `age` is history, kept by what arrives and
not by what is stored. `PopsSrvr` serves its connections one turn of
`protocol_input()`'s loop at a time, since the software and the computer move on
while `system()` runs. The power may fail at any moment, and a halted computer
comes up again. A newline is not modelled, so a command is never cut in half.
D is answered by nothing and leaves what came with it
unread until the next read; `Answered` is stated of clients that do not send it.
`Pops` uses the server's own actions for what it sends and reads, and adds the
driver: connection, agreement, orders, polls, the timeout that may come before
a slow answer (`hasty`), end of file.

### `PopsService`

What whoever gives orders by the driver's commands and reads its telemetry may
rely on: one record with the instrument, the orders on their way (`sent`), the
statuses on their way back (`news`), whether there is contact, and the status
shown (`Srvr`). An order is executed once at most, possibly late, after the driver
lost contact and made a new one; statuses are shown in the order in which
the server had them, and some may be skipped; losing contact sets the status to
0. `Pops` implements it (`ServiceSpec`, checked and proved) with the mapping that
counts an order on all connections, abandoned ones too.

### `CosmidAlgo`

The three partitions of `TM/cosmid.tma`, a step for each second (`Second`):
`P1Step`, `P2Step` and `P3Step` each give the state a partition goes to, the
seconds it has waited and the order it gives. A state whose list of commands
waits inside is a state for each command it waits before (`Starting`,
`Climbing`, `Started`, `Quitting`). Drivers and instruments are two instances of
`PopsService`, which start as an earlier run may have left them (`Left`). A driver
that ended (`quit`) keeps its last frame: `POPS_inst.tmc.in` goes on with the
values it had when the driver's data is stale. The first instrument's pressure is reduced to
whether it is below 750 (`climbed`), which holds before there is any sample,
for the frame's `P_mbar` is 0 then.

The interpreter is not in this repository. Assumed of it, and to be known when
the results are used: the partitions are evaluated once a second, `P1` first; a
`Validate` takes effect at once; `valid (a, b)` needs both states; an order
given reaches the driver in the same second; `SWStat`'s shutdown acts in the
second in which it comes.

### `NephexExport`, `NephexEmulator`, `NephexLink`

The stream of tokens is again cut anywhere. A token that is no header but is
taken for one has the length `GarbageLen` and an unknown APID. `TakePacket` is
a whole turn of the loop: length check, decimation, forwarding. The library
may retain any part of a packet, and an ACK may cover any part of what is in
flight. `skipped` is history: by what came while `CTS()` held and was not
forwarded, whatever the table did about it.
`NephexLink` chooses at the start whether the exporter is connected to the
instrument or to the emulator. With the emulator each end learns late of what
the other did: a connection is `"queued"` before the emulator accepts it, an
object whose other end closed is destroyed some time later (until then it is
registered and `"open"`, as in the code, and what is written to it reaches
nobody), and the exporter
may reset a connection that the emulator has not got round to (`hasty`). The
emulator's file is a source of whole packets, any of which may be due at any
time.

## 3. The runs

| Run | Module | Properties beyond types | Distinct states |
|---|---|---|---|
| `xtx` | `XioTcpExport` | `BufferSafe`, `OutstandingBounded`, `FifoUntilWrap`, `OutstandingAccounts`, `AckIsOwed`, `QueueDrains` | 349 000 |
| `xt` | `MCXioTcp` | `ReservationHolds`, `PacketsComeInComplete`, `AckAfterDelivery`, `WaiterIsOwed`, `ExporterSpec` (refinement), `ForwardedIsAnswered` | 160 000 |
| `xu` | `XioUdp` | `OneAtATime`, `AnswerIsOwed`, `HeldOffIsReleased` | 26 000 |
| `xh` | `XioHarvHeader` | `FilledIsAccepted`, `AnyByteMatters` | 367 000 |
| `pd` | `PopsData` | `StreamRecovers`, `StaleIsAge` | 3 200 |
| `ps` | `PopsSrvr` | `HaltIsDeliberate`, `Answered` | 554 000 |
| `pops_safety` | `MCPops` | `StatusSettled`, `ServiceSpec` (refinement) | 232 000 |
| `pops_fair` | `Pops` | `DeadServerNoticed`, `ContactMade` | 84 000 |
| `ne` | `MCNephex` | `FramingKept`, `DecimationKept`, `WindowKept`, `ForwardsToAnObject`, `WindowOpens`, `ServedAgain` | 134 000 |
| `cosmid` | `CosmidAlgo` | `LaunchesInOrder`, `SecondNotForgotten`, `QuitAfterOrders`, `GentleHalts` | 2 140 000 |
| `xtx_length` | `XioTcpExport` | `LengthAsDocumented`, violated | |
| `xt_answered` | `MCXioTcp` | `EveryPacketIsAnswered`, violated | |

Every property of a passing run has a mutant of the code that violates it
(`PROJECT.json`, "mutants").

### Bounds, and why they are enough

* **`xtx`, `xtx_length`**: a buffer of 7 bytes, headers of 1 and at most 3 data bytes,
  a window of 4. All boundaries are met: a commit that ends at the end of the
  array, one that goes round it, a full buffer, a chunk of two spans, a window
  that closes in mid queue. `MaxBytes` (10; 12 in `xtx_length`) is more than one
  round of the array, so that commits wrap and the wrapped queue is used
  further. One connection breaks (`MaxDrops`), after which the window is
  narrower for good, and a second break adds only another such narrowing. The
  theorems of section 5 need no bound.
* **`xt`, `xt_answered`**: two receiver objects, one connection held open at a time
  (as the instrument does), packets of 2 and 4 bytes, so of one and of two serio
  packets; two packets, so that the second meets a buffer with the first in it
  and may or may not fit, and no connection after the last of them; reads of any size into a buffer of 5. `MaxBytes` is
  never reached. `xt` has one broken connection, `xt_answered` none.
* **`xu`**: a limit of 2 and a byte of 6 values, so that a disobedient instrument
  makes the count wrap; two flags on their way, one lost, one answer in two
  pieces.
* **`xh`**: a byte of 6 values: every value of every one-byte field, lengths at
  0, at the limit, beyond it and at the wrap of a word, every one-byte
  corruption. The theorems hold for a byte of any size.
* **`pd`**: two samples suffice to tell an old one from a new one; ages up to 4, so that
  `Stale` reaches the most it can say.
* **`ps`**: two connections, two orders of B, E, F, D and an invalid one, status
  requests (V) whenever nothing is on its way on a connection, one power
  failure. Two orders are enough for `HaltIsDeliberate`, which speaks of a single
  E: a halt needs it, and a running software a B before it.
* **`pops_safety`**: two connections, of which one may have been abandoned, two orders,
  one status request on its way at a time, one hasty timeout. The computer halts when it
  is told to and is switched on again, but its power does not fail here: to driver and
  service a failure is a halt without notice, which `ps` and `pops_fair` have and the
  theorems of section 5 cover. `MCSymmetry` permutes the connections, between
  which no definition tells; it is used with safety properties only.
  **`pops_fair`**: one order and a power failure, no symmetry.
* **`ne`**: an APID decimated by 2, one by 1, an unknown one; three packets of 3
  bytes, which is one more than a window of 4 lets through, payloads that begin with two
  sync bytes, connections that begin with a packet or in the middle of one, one broken
  connection.
  With the emulator: two packets; two connections at a time, which is the one that is
  served and one that is refused or was forgotten; one reset of a connection that
  the emulator had not got round to.
* **`cosmid`**: the waits are shortened to 2, 1 and 2 seconds, which leaves
  every order of events: each wait can end before, with or after everything
  else. One status on its way, one computer that stops, one driver that ends. A
  frame may show a status that is arbitrarily old anyway. The theorems need
  none of these numbers.

Deadlock is not checked in `xtx`, `xt` and `pops` (the bounds on bytes, packets
and orders stop the environment, and a dead or ended program stops), in `xh`
(a header is corrupted once) and in `cosmid` (the algorithm quits).

### Fairness

A program here is a thread that an event loop runs. Fairness says no more than
what the loop and the other end do:

* a callback that runs goes on to its end: weak fairness of the steps of
  `process_queue()` and of the loops of `protocol_input()`. For `XioTcp` this is
  written out as `RunsOn` (the thread is outside a callback again and again, or takes its own
  steps again and again), which is the same and spares TLC the evaluation of `ENABLED`;
* the loop serves every ready descriptor and every timer in each of its rounds:
  strong fairness of those actions, since a running callback disables them;
* the library keeps trying to connect, and the peer acks what it received: strong
  fairness for ACKs *of bytes in flight* only (`AckInFlight`). No ACK for more
  than that is ever assumed;
* `nephex_export` resets a connection on which nothing comes (its timer of 5
  seconds), tries to connect again, and the emulator's loop accepts connections
  and destroys the objects of closed ones: strong fairness, since the callbacks of
  the exporter disable them in between;
* clients of the server read their replies; an imager that was told to hold off
  asks again.

No instrument has to send anything, no connection has to last, and no order has
to be given. Where a broken connection or a wild pointer makes a promise void
the property says so (`lost > 0`, `pc = "dead"`). For the nephelometer's window it takes
more: bytes that went with broken connections never come off the count, so the window
opens again unless a whole window of them was lost (`lost >= Window`).

## 4. What the runs show

* The exporter's buffer is memory-safe **whatever it holds**, also after the
  faulty second span of a commit (below). Until such a commit it is a FIFO
  queue.
* `outstanding_bytes` is exact, never wraps, never exceeds the window by a full
  serio packet. Until a connection loses bytes, data that waits has bytes of its own
  retained or in flight before it, for which the peer owes an ACK, so the queue drains
  without a timer and though nothing calls `process_queue()` when the
  library's buffer empties. After a loss this may end: bytes that no ACK will cover
  can keep the window shut.
* With one connection the decision to forward, made once at the header,
  holds to the end of the packet; the receiver is acked when its last byte was
  written, and surely, with the same reservation.
* The values in a POPS frame are never older than `Stale` says, whatever came that was
  not stored.
* The UDP half cannot stall an imager that obeys, although flags get lost, and drops
  packets for want of an answer only while one is owed.
* Telemetry shows the server's status whenever nothing is on its way, whatever
  was sent, merged into one reply, abandoned or timed out. Driver and server
  implement `PopsService`: no order is executed twice, and no status is shown that
  came before one already shown or from a connection that was given up. One
  order E never halts the computer under running software, whatever the
  connections, the other orders and the power do.
* Under the algorithm the second instrument is launched after the first, and the
  partition that waits for the first to be idle sees it so in time; a shutdown
  in any second is given to both instruments before the algorithm quits (but to
  a first instrument that was never seen active it is not given, see below), and
  halts no computer under software, but for software that an earlier run had
  told to stop and that did not.
* The nephelometer's packets are found wherever reads cut them, decimation counts
  exactly the packets that come while the peer keeps up and none of those dropped with
  a closed window, and the window is kept.
* The emulator never writes to an object that is gone, although it trusts one
  pointer that every destructor resets; an exporter that it refused or forgot
  is served again, thanks to the exporter's timer of 5 seconds.

### Two disagreements the runs exhibit

* **`xtx_length`**: `circ_commit()`'s second span ends with
  `circ_tail += tail_space` (`Xiomas/xiomas_export.cc:174`), the length of the
  *first* span. From then on `circ_length()` is not the "number of bytes of data
  currently in the buffer" (`xiomas_export.h:49`).
* **`xt_answered`**: the receiver of a packet that was not forwarded asks for an
  ack at `xiomas_export.cc:423`, after the last `process_queue()`. If
  everything before it was acked by then nothing calls `ack()`, which "should
  send a CTS message" (`xiomas_export.h:148`), and the imager waits for ever.

### Observed while modelling

The following was met while the code was read and is not the subject of a run:

* `circ_head_bytes()` subtracts the tail from the head
  (`xiomas_export.h:73`) and so returns a huge number when the data is in one
  piece; `circ_transmit()` never asks for more than is there, which is why
  `BufferSafe` holds nevertheless.
* `client` is not initialised (`xiomas_export.cc:15`); an ACK or a packet before
  the first `request_ack()` uses it (lines 114 and 196). The model's `"dead"`.
* After a complete packet a receiver stays in `xtr_mid_pkt` with nothing left to
  read (`xiomas_export.cc:422`), so that a packet behind it on the same connection
  is not looked at until the timer resets the connection.
* Two connections each compare their packet with all of `circ_space()`
  (`xiomas_export.cc:399`), and nothing limits them to one ("There should
  probably be only one allowed per port", `xiomas_export.h:138`). With
  `MaxConns = 2` in `XioTcp.cfg` TLC finds `PacketsComeInComplete` violated.
* A datagram with RTS is answered only when `pkts_recd` is 0
  (`xiomas_export.cc:557`); otherwise it takes one off the count.
* `xhgValidateHeader` accepts the reserved packet ID 0
  (`XioHarvGatewayPacket.cpp:269`, the enum's "reserved value do not use" at
  `XioHarvGatewayPacket.h:62`), and for stream packets the total length may
  wrap (`XioHarvGatewayPacket.cpp:137`).
* `Laser_Current` and `Flow_Set` are parsed (`POPS/POPS.cc:147-148`), have a
  place in `POPS_t`, and are not among the assignments that begin at line 213.
* `send_shutdown()` returns true though the UDP socket is connected only 45
  seconds after the start (`BBB/srvr/POPS_srvr.cc:130,167`); nothing is sent on
  accept (comment at line 4); the halt is ordered before the reply (line 53,
  comment at line 11).
* `not_reported()` indexes `defs` with any APID (`Nephex/nephex_export.cc:83`),
  `get_size()` and `OK_to_transmit()` do not. What lies behind the table is
  not modelled.
* The emulator's `client` is not initialised (`Nephex/nephex_emulator.cc:13-23`),
  so that the first client may be refused; and the destructor of a refused
  client ends the service of the first (line 126).

* In the algorithm: `POPS1_Init` does not depend on `Shutdown`
  (`TM/cosmid.tma:33-38`), so that `POPS Start` may be given after a shutdown and
  before `Quit`, and the first instrument is then not shut down. A server that
  reports 3 or nothing holds `P2` there for good, and the order, given once
  (line 37), may be lost.
* `POPS2_Init` waits for `POPS_srvr == 1` (line 60), the first instrument's
  status. If the first was found active this never comes, and `P3` goes on only
  if the second is found active as well, or at a shutdown.
* `Shutdown` holds until both servers say 1 (line 24), but after a shutdown they
  say 3, or nothing when they halted, so that as a rule the 10 seconds pass.
* `P_mbar` is 0 before the first sample, so `POPS_P_mbar < 750.` (line 68) holds
  on the ground when the server is active and no data came yet.
* The algorithm names `POPS_srvr`; the telemetry definitions of the instrument
  have `@pfx@_Srvr` (`POPS/TM/POPS_inst.tmc.in`).

## 5. What is proved

Each theorem holds for every value of the constants that the module's
assumption admits. A theorem that states a property of a run is listed with it.

| Module | Theorem | Property |
|---|---|---|
| `XioTcpProofs` | `TypeCorrect` | `TypeOK` |
| | `BufferAlwaysSafe` | `BufferSafe` |
| | `WindowRespected` | `OutstandingBounded` |
| | `Accounts` | `OutstandingAccounts` |
| | `QueueIsOwedAck` | `AckIsOwed` |
| | `Fifo` | `FifoUntilWrap` |
| | `TcpTypeCorrect` | `TcpTypeOK` |
| | `ReceiversAreCallers` | `ExporterSpec`: `XioTcp` implements `XioTcpExport` |
| | `BufferSafeWithReceivers` | `BufferSafe` and `OutstandingBounded`, of `TcpSpec` |
| | `AckedAfterDelivery` | `AckAfterDelivery` |
| | `WaiterOwed` | `WaiterIsOwed` |
| | `ReservationKept`, `PiecesAreWhole` (for `MaxConns = 1`) | `ReservationHolds`, `PacketsComeInComplete` |
| `XioUdpProofs` | `UdpTypeCorrect`, `PeerHasOne`, `PendingIsOwed` | `TypeOK`, `OneAtATime`, `AnswerIsOwed` |
| | `FilledAccepted`, `ByteMatters` | `FilledIsAccepted`, `AnyByteMatters` |
| `PopsSrvrProofs` | `DeliberateHalt` | `HaltIsDeliberate` |
| | `SrvrTypeCorrect` | the server's types |
| | `ReadsToTheEnd`, `OrdersAreExecuted` | what `Answered` rests on: nothing read is left lying, no order is lost or overtaken |
| `PopsProofs` | `DrivesTheServer` | the driver implements the clients of `PopsSrvr` |
| | `DriverHaltsDeliberately` | the server's `HaltIsDeliberate`, of `Pops` |
| | `PopsTypeCorrect`, `StatusIsSettled` | `TypeOK`, `StatusSettled` |
| | `ImplementsService` | `ServiceSpec`: `Pops` implements `PopsService` |
| | `NoOrderInvented` | orders on their way grow only by what the operator gives |
| | `OrdersOutliveTheirLink` | an order sent on a connection since given up is still executed |
| | `TimeoutsAreOwed`, `SilenceIsTimed`, `ShownByConsent` | what `DeadServerNoticed` and `ContactMade` rest on: the timer runs whenever something is owed |
| | `SecondIsStored`, `StaleNeverYounger` (of `PopsData`) | `StreamRecovers`, `StaleIsAge` |
| `PopsServiceProofs` | `ServiceTypeCorrect`, `NothingWithoutContact` | types; no status without contact |
| `CosmidAlgoProofs` | `LaunchOrder`, `SecondIsIdleInTime`, `OrdersBeforeQuit`, `GentleShutdown` | `LaunchesInOrder`, `SecondNotForgotten`, `QuitAfterOrders`, `GentleHalts` |
| | `AlgoTypeCorrect` | the algorithm's types |
| `NephexLinkProofs` | `LinkTypeCorrect`, `PacketsAreFound`, `DecimationIsExact`, `WindowIsKept`, `EmulatorHasItsClient` | `TypeOK`, `FramingKept`, `DecimationKept`, `WindowKept`, `ForwardsToAnObject` |
| | `CreditIsKept` | what `WindowOpens` rests on: a closed window is owed an ack |
| | `RefusalsAreDue` | what `ServedAgain` rests on: a connection is refused only for one that is served |

### The exporter

The assumptions are `CircAssumption` (the buffer has a size, and the word is
at least twice that) and `ExportAssumption` (sizes are positive, the null and
the wild pointer are no receivers).

Lemmas on the operators of `XioCirc` come first: the length
is within the size (`LengthInRange`), what a commit plans stays in the array
(`CommitPlanRange`, `CommitSafe`), a commit keeps the indices in range even with
the tail it leaves after a second span (`CommitBuffer`), a transmission takes
at most two spans, asserts nothing false and shortens the queue by exactly what
it sent (`ConsumeBuffer`, `TransmitBuffer`). `TypeOK` is then inductive, and
`BufferSafe` follows from it alone: it needs nothing of the queue's contents,
which is why it survives the faulty tail. `OutstandingBounded` is
inductive beside `TypeOK`, because `PqTransmit` starts below the window and
adds at most one full packet. `OutstandingAccounts` is inductive beside
`TypeOK`. For `AckIsOwed`, `WindowShut` is inductive beside it: the only way out of
`process_queue()` with a queue that is not empty is `~CTS()`, so the window is closed,
and it is positive, or the library retains bytes; either way something is outstanding.
By `OutstandingAccounts` that is retained, in flight or lost, and as long as nothing was
lost it is on its way; by `OnTheWay` (without a connection nothing is) the connection
it is on its way over is up.

`FifoUntilWrap` is *not* inductive: that the next byte to leave is the right
one depends on what every byte of the queue is. The invariant is `Contents`:
until a commit wraps, the i-th byte queued is byte `sent + i + 1` (`Holds`) and
`circ_length()` is `written - sent`. `CommitAppends` and `TransmitInOrder` carry
it over the two operations, `ConsumeShifts` over the change of the head.

### The receivers

A receiver calls the exporter only as `XioTcpExport` says, so every step of
`XioTcp` is one of the exporter's or leaves it alone (`StepKinds`);
with `InitTcpInv` and `NextTcpInv` this is the refinement, and brings the
exporter's theorems to `TcpSpec`. `TcpInv` is `Types` and `Waits`: a receiver that
the exporter knows, or whose timer runs, has its whole packet. `AckAfterDelivery` is
inductive beside it and `FifoUntilWrap`: a timer is set when the queue is
empty, and until a commit wraps an empty queue means that everything accepted
was sent. `WaiterIsOwed` is not inductive, since it speaks of the program at rest; `Owed`
also says that while `process_queue()` runs for a receiver, bytes are queued or
outstanding. It holds while no ACK was for more than was in flight
(`trusted`). As for `AckIsOwed`, `OutstandingAccounts` and `OnTheWay` make of it that
bytes are on their way over a connection that is up, until one loses bytes.

`ReservationHolds` and `PacketsComeInComplete` are theorems for `MaxConns = 1`:
two connections do break them, so the assumption is part of the theorem. The
invariant adds `Single`, that at most one receiver is open. A receiver that
starts on a packet compared all its serio packets with the space (`Fits`); a later
piece takes its share of that (`OneMoreSerio`: a packet makes one serio packet and
those of the rest), nobody else adds to the buffer (`Single`), and what the socket
took only adds space (`SpaceStays`, by `FifoUntilWrap`). A piece for which there is space
goes in whole with its header (`GoesInWhole`).

### The UDP half and its headers

That the peer never has two packets needs `Balanced`: the packets it owes an
answer for and the pieces of answers not read yet are at most one more than the
answers that were split while an answer is awaited, and at most those otherwise.

That a filled header's LRC is right, and that of a header with one byte wrong is
not, follow from two facts on the sum of its bytes: a change of one byte
changes it by the difference (`SumChanges` in `SumTheorems`), which is less
than `Base` and so not lost in the remainder (`AnotherSum`). That the fields are
read back as they were given is `ValueIsKept`: three divisions of a value below
`Base`^4 leave less than `Base` (`ShiftFits`), and the remainders put together are the
value. That `FilledIsAccepted` may
say `pid < xhpidPacketLimit` where the code compares with `<=`
(`XioHarvGatewayPacket.cpp:293`) needs that the IDs of streams begin above that
limit, which is what the enum has and `XioHarvAssumption` says.

### POPS data, server and service

`StreamRecovers` needs `Clear` (after a whole datagram nothing is left in the
buffer). `StaleIsAge` speaks of the sample whose values stand in the frame and of when
any datagram with that sample last arrived: one that is not stored makes
the sample younger but leaves `Stale`, and one that is stored resets both. `HaltIsDeliberate` needs `Asked`: orders E and F that the server may
still read were given, E on one connection and in one place if given once
(`Once`), and software that runs under a status other than active was told to
stop by an E that is on its way nowhere (`Nowhere`), so that the next E is the
second. The lemmas on `Line` carry `Once` and `Nowhere` over every way in which
orders move between the network and the buffer.

Beside it, `Emptied` says that while nobody orders D only the connection that is
served has something in its buffer: `protocol_input()` goes on to the end of what it
was given, and a client that hangs up, or a computer that stops, leaves less. With
it each step does to the `Line` of a connection one of three things (`LineKept`):
an order is put behind, the first is executed, or all go with the computer. That is
`OrdersAreExecuted`. The restriction is the code's: behind a D it reads no
further.

`PopsServiceProofs` states once
what each step of a service does to `Told` (an instrument given E once at most is not
halted by it under running software) and `Seen` (what is shown as active was
active); `CosmidAlgoProofs` uses these for both instances.

### The driver

`PopsInv` is the server's invariant (`SrvrInv`, for the same state), and what the
driver adds to it: `Linked` (where it has a connection, and what it did not send
before the server's consent), `Counted` (the bytes of the telemetry),
`Waiting` (what waits at an open connection waits at a running server, and in its
buffer only while it is served; replies are statuses; orders and polls not answered
and answers not read are no more than polls and orders given and one, `Room`) and
`Settling` (with the connection up and not being served, the last reply on its way
is the server's status; without one, telemetry shows that status or a request is on its
way, unless an order was executed on an abandoned connection since).
`StatusSettled` speaks only of rest and is not inductive; `LastKnown` says what the
replies on their way will make of it.

Every step of the driver is a step of the server's clients (`ServerStep`), which
is the theorem `DrivesTheServer` and brings the server's theorems to `Pops`.

For `ServiceSpec`, the mapping `AsService` gives the service's record: the number of orders of
each kind on their way is a sum over all connections of how often the order is
in what was sent and not executed. `TimesPut` and `TimesTake` say what a queue's two ends
do to that number, `SumChanges` what one connection does to the sum; from these
`WayPut`, `WayTake`, `WaySame` and `WayNone` give what the sum does when an order is
sent, executed, or read, and when the power fails. Then
each step of driver or server is a step of the service or a stutter
(`ServiceStep`): a turn of the server's loop executes the first order that waits and
reports a status only if it answers on the driver's own connection.
Which of the service's steps it is the proof says as well: a step that is not the
operator's is one of the service's driver or instrument (`OwnStep`, `Promised`), and
an order that is given is the service's `Order` (`OrderStep`). No step of the
service but `Order` makes the number of orders on their way grow, which is
`NoOrderInvented`. `OrdersOutliveTheirLink` comes from the server's `LineKept`,
since the driver never orders D.
The proof showed that the service's bound on statuses on their way has to be
`MaxPolls + MaxSent + 1`: each order, each poll and each new contact may be answered once before
the driver reads.

That a server that is gone is noticed rests on `Noticing`, inductive beside
`PopsInv`: the timeout of `forward()` runs only while an answer is due on this connection or
its server is gone (`AnswerDue`: else a timeout would break a connection that works),
and conversely it does run whenever `srvr_Stale` says that a request is
unanswered or telemetry shows no status in spite of contact (`PolledOrTimed`,
`ShownWhenUp`: else neither a poll nor a timeout would ever come).

### The algorithm

The invariant `IInv` is the types, `Partitions` (which orders a partition has
given in which state) and `ServicesTold` (`Seen` of the first service, `Told` of both).
The four properties follow from it. `AlgoAssumption` asks only that the waits be
positive.

### The nephelometer's exporter and the emulator

`FramingKept` follows from `Places`: of a connection that began with a packet,
what was read and what is on its way are together whole packets (`Whole`), each
starting where the last one ends. A turn of the loop takes one off the front,
a read moves the border, and the emulator appends only whole ones, of which
each waiting one is whole too (`EmuInv`). `Owned` says that an exporter that is not connected
has no connection to the emulator. `DecimationKept` and `WindowKept` are
inductive beside the types. `ForwardsToAnObject` is inductive: the emulator
begins to read with the same step that makes an open object its client, and
every destructor ends the reading. Beside it `Registered` says that there is a client
just while it reads, so that `set_client()` refuses nobody for an object that is gone
(`RefusalsAreDue`).

`CreditIsKept` follows from `Accounted`: what is outstanding is in the library, on its way
or lost. `app_input()` counts off no less than what an ACK covers, and
`forward_packet()` counts no more than it hands to the library; so a window that is
closed has something to be acked, unless a window of bytes went with broken
connections.

### What is only model-checked

* All liveness: the prover does not do `ENABLED`. Of each liveness property the part
  without time is a theorem: that something enabled is owed whenever the property
  waits.

  | Model-checked | Proved |
  |---|---|
  | `QueueDrains` | `QueueIsOwedAck` |
  | `ForwardedIsAnswered` | `WaiterOwed` |
  | `HeldOffIsReleased` | `PendingIsOwed` |
  | `Answered` | `ReadsToTheEnd`, `OrdersAreExecuted` |
  | `DeadServerNoticed` | `SilenceIsTimed` |
  | `ContactMade` | `ShownByConsent`, `TimeoutsAreOwed` |
  | `WindowOpens` | `CreditIsKept` |
  | `ServedAgain` | `RefusalsAreDue`, `EmulatorHasItsClient` |

  What remains to TLC is that fairness makes the enabled step happen and that the steps
  come to an end.
* The two violations, which are counterexamples.

Every safety property, action property and refinement of a passing run is also a
theorem. Two of them need facts on the library's sums, which are defined by
recursion over a set. The library's induction theorems cannot be used, since they take an
operator as parameter; `SumTheorems` instead states induction for a *set* of numbers
or of subsets (`AllNaturals`, `AllSubsets`), from the library's `WFMin`, shows that the
recursive function exists (`SumExists`) and is the library's (`SumIs`), and derives
what the other modules use.

The bounds of the runs are constants in the theorems like others: they hold for
all their values, except that a bound is always finite.

## 6. What is not modelled, and assumptions on what is outside

* `dasio`, `tm_ip_export`, `tmcalgo` belong to other repositories. The models
  assume of them: `reset()` closes the connection and drops what was read; bytes
  that `protocol_input()` did not report as used are presented again with what
  follows; `iwrite()` without a connection loses its bytes; a timer fires once;
  `tm_ip_export` sends only control packets to the exporters.
* Logging to disk, messages, `xhgShowHeader`.
* A reply of the server that does not fit the socket's buffer
  (`POPS_srvr.cc:83`), which ends the server's loop: a reply is two bytes.
* A serio packet that is no control packet (`xiomas_export.cc:92`,
  `nephex_export.cc:164`) is reported and not stepped over.
* The reading of the emulator's file and its pace. `nephex_emulator.cc:53` moves past the
  sync word of a packet that a read cut, unlike `nephex_export.cc:204`: whether
  the packet is then found again is a matter of what the library does with
  `cp` between two reads, which this repository does not say. The models take the file
  as a source of whole packets.
* What the algorithm's interpreter does inside a second, beyond what section 2
  assumes of it.
* Telemetry definitions, `TMAstat`, `coretemps`, plots, scripts: no state.

## 7. Plan

Done, in the order of importance: the Xiomas exporter with its proofs, the
receivers on top of it and the refinement, the UDP half, POPS driver and server
with the service they implement, the algorithm on top of two such services, the
nephelometer's exporter with the instrument and the emulator, the header
functions; and proofs about all of these.

What could follow:

1. The algorithm on top of two instances of `Pops` instead of two services. By
   `ImplementsService` nothing new can happen, and `OwnStep` and `OrderStep` are
   the interface it would use; the composition is too large for TLC, so it
   would be a theorem only.
2. The emulator's reading of its file, once the library's promise about `cp` is
   at hand.
