------------------------------ MODULE PopsData ------------------------------
(***************************************************************************)
(* Class UserPkts_UDP of the POPS driver (src/POPS/POPS.{cc,h}): the data  *)
(* datagrams of the POPS software become the telemetry frame POPS, and     *)
(* POPS.Stale says how many telemetry frames old they are.                 *)
(*                                                                         *)
(* A datagram is whole (it parses), badtime (mktime() refuses its date),   *)
(* garbled (the parser fails inside it) or cut (the parser reaches its     *)
(* end and wants more).  Its values are one stamp.  POPS_client::tm_sync() *)
(* ages the frame; it is composed with the rest of the driver in module    *)
(* Pops.                                                                   *)
(***************************************************************************)
EXTENDS PopsStale

CONSTANTS
  Stamps,      \* the samples
  NoStamp      \* no sample yet: not a member of Stamps

ASSUME DataAssumption == NoStamp \notin Stamps

\* pending says that a cut datagram waits in the buffer; POPS is the frame.
\* History: row counts the whole datagrams received in a row (up to 2), latest
\* is the stamp of the last one; age[s] counts the frames sent since sample s
\* last arrived, stored or not (up to ByteMax, which also stands for never).
VARIABLES pending, POPS, row, latest, age

dataVars == <<pending, POPS, Stale, row, latest, age>>

Kinds == {"whole", "badtime", "garbled", "cut"}
HasSample == {"whole", "badtime"}

\* Flow stands for all the values that are copied the way Flow is.
Parsed == {"Time", "Flow", "Laser_Current", "Flow_Set"}

\* The locals Laser_Current and Flow_Set are parsed and not copied.
Copied == {"Flow"}

DataInit ==
  /\ pending = FALSE /\ POPS = [f \in Parsed |-> NoStamp] /\ Stale = 0
  /\ row = 0 /\ latest = NoStamp /\ age = [s \in Stamps |-> ByteMax]

\* The parser starts at the beginning of the buffer: after a cut datagram the
\* next one is not what it expects.
Parses(kind) == ~pending /\ kind \in HasSample

\* Mutant: a buffer that does not parse is kept.
PendingKept(kind) == {~Parses(kind)}

\* On a parse error the buffer is emptied, unless the parser ran out of input:
\* at the end of a cut datagram, and perhaps again when another one or a
\* garbled one follows it in the buffer.  The beginning of a datagram that
\* holds a sample is an error there.
PendingAfter(kind) ==
  IF pending /\ kind \notin HasSample THEN BOOLEAN
  ELSE {~pending /\ kind = "cut"}

Frame(kind, stamp) ==
  [f \in Parsed |->
     IF f \in Copied \/ (f = "Time" /\ kind = "whole") THEN stamp ELSE POPS[f]]

\* Mutant: any datagram makes the frame fresh.
StaleAnyway(kind) == 0
StaleAfter(kind) == IF Parses(kind) THEN 0 ELSE Stale

\* protocol_input() for the next datagram.
Datagram(kind, stamp) ==
  /\ pending' \in PendingAfter(kind)
  /\ POPS' = IF Parses(kind) THEN Frame(kind, stamp) ELSE POPS
  /\ Stale' = StaleAfter(kind)
  /\ row' = IF kind # "whole" THEN 0 ELSE IF row < 2 THEN row + 1 ELSE 2
  /\ latest' = IF kind = "whole" THEN stamp ELSE latest
  /\ age' = IF kind \in HasSample THEN [age EXCEPT ![stamp] = 0] ELSE age

\* The beginning of tm_sync(): the frame goes out and grows older.
Age ==
  /\ Stale' = Aged
  /\ age' = [s \in Stamps |-> IF age[s] < ByteMax THEN age[s] + 1 ELSE age[s]]
  /\ UNCHANGED <<pending, POPS, row, latest>>

DataNext ==
  \/ \E kind \in Kinds, stamp \in Stamps : Datagram(kind, stamp)
  \/ Age

DataSpec == DataInit /\ [][DataNext]_dataVars

-----------------------------------------------------------------------------
(* What must hold of it.                                                   *)

\* A datagram that does not parse costs the next one at most: the second of
\* two whole datagrams in a row is always stored.
StreamRecovers == row = 2 => POPS["Flow"] = latest /\ POPS["Time"] = latest

\* Stale speaks of the values beside it in the frame: their sample arrived no
\* more than Stale frames ago, whatever came since and was not stored, also at
\* the most a uint8_t holds; and while whole datagrams come Stale is the age of
\* the last one.  (A badtime datagram leaves POPS.Time older.)
StaleIsAge ==
  /\ POPS["Flow"] # NoStamp => age[POPS["Flow"]] <= Stale
  /\ row = 2 => Stale = age[latest]
=============================================================================
