----------------------------- MODULE NephexLink -----------------------------
(***************************************************************************)
(* nephex_export with what it is connected to: the nephelometer, as in     *)
(* module NephexExport, or nephex_emulator (module NephexEmulator, here    *)
(* Emu).  The exporter connects, resets and connects again; the emulator   *)
(* serves one client, and each end learns late of what the other did.      *)
(***************************************************************************)
EXTENDS NephexExport

CONSTANTS
  Clients, NoClient, WildClient,   \* as in NephexEmulator
  File,        \* the packets the emulator's file may hold
  MaxEmulated, \* bound: packets of the emulator's file
  MaxHasty     \* bound: resets before the emulator got round to a connection

VARIABLES
  source,      \* "instrument" or "emulator"
  cur,         \* the exporter's connection to the emulator, or NoClient
  object, client, reading, waiting,  \* of Emu, waiting being its obuf
  hasty        \* history: counts the resets MaxHasty bounds

emuVars == <<object, client, reading, waiting>>
linkVars == <<vars, source, cur, emuVars, hasty>>

Emu == INSTANCE NephexEmulator WITH obuf <- waiting

ASSUME LinkAssumption ==
  /\ File \subseteq {Packet(a, l, f) : a \in Apids, l \in 0 .. MaxLen, f \in Fillers}
  /\ {NoClient, WildClient} \cap Clients = {} /\ NoClient # WildClient
  /\ MaxEmulated \in 0 .. MaxPackets /\ MaxHasty \in Nat

LinkInit ==
  /\ Init /\ Emu!Init
  /\ \/ source = "instrument" /\ client = NoClient
     \/ source = "emulator"
  /\ cur = NoClient
  /\ hasty = 0

-----------------------------------------------------------------------------
(* The instrument; the exporter's own steps.                               *)

Instrument ==
  /\ source = "instrument"
  /\ ConnectInstrument \/ SendPacket \/ Reset
  /\ UNCHANGED <<source, cur, emuVars, hasty>>

Exports(A) == A /\ UNCHANGED <<source, cur, emuVars, hasty>>

-----------------------------------------------------------------------------
(* The emulator.                                                           *)

\* To and from the exporter there is nothing but the stream.
linkRest == <<buf, busy, tableVars, outstanding, peerVars, source, hasty>>

\* One free connection is as good as another.
ConnectEmulator ==
  /\ source = "emulator" /\ ~busy /\ link = "down"
  /\ \E c \in Clients : object[c] = "none"
  /\ cur' = CHOOSE c \in Clients : object[c] = "none"
  /\ Emu!Arrives(cur')
  /\ link' = "up" /\ stream' = <<>> /\ clean' = TRUE
  /\ UNCHANGED <<linkRest, toSend>>

\* reset(), by the timer or the end of the file: the emulator is not told yet.
EmulatorIsBehind == object[cur] \in {"queued", "doomed"}
ResetEmulator ==
  /\ source = "emulator"
  /\ Reset /\ cur' = NoClient
  /\ EmulatorIsBehind => hasty < MaxHasty
  /\ hasty' = IF EmulatorIsBehind THEN hasty + 1 ELSE hasty
  /\ UNCHANGED <<source, emuVars>>

EmulatorAccepts(c) ==
  /\ ~busy /\ Emu!Connected(c)
  /\ UNCHANGED <<linkRest, cur, instVars>>

EmulatorDestroys(c) ==
  /\ ~busy /\ Emu!Destroy(c, c # cur)
  /\ UNCHANGED <<linkRest, cur, instVars>>

\* What the emulator writes to c comes to the exporter if c is its connection.
Sends(c, packet) ==
  stream' = IF c = cur THEN stream \o packet ELSE stream

EmulatorSends ==
  /\ ~busy /\ toSend > MaxPackets - MaxEmulated
  /\ \E packet \in File :
        /\ Emu!Ingest(packet)
        /\ IF Emu!Written THEN Sends(client, packet) ELSE UNCHANGED stream
  /\ toSend' = toSend - 1
  /\ UNCHANGED <<linkRest, cur, link, clean>>

EmulatorDrains(c) ==
  /\ ~busy /\ Emu!Drain(c) /\ Sends(c, waiting[c])
  /\ UNCHANGED <<linkRest, cur, link, toSend, clean>>

Emulator ==
  \/ ConnectEmulator \/ ResetEmulator \/ EmulatorSends
  \/ \E c \in Clients :
        EmulatorAccepts(c) \/ EmulatorDestroys(c) \/ EmulatorDrains(c)

-----------------------------------------------------------------------------
LinkNext ==
  \/ Instrument \/ Emulator
  \/ Exports(Receive) \/ Exports(Loop)
  \/ Exports(AppInput) \/ Exports(Drain)
  \/ Exports(Drop) \/ Exports(ConnectPeer)

LinkSpec == LinkInit /\ [][LinkNext]_linkVars

\* The emulator is served by the exporter's connection.
Served == reading /\ client = cur /\ link = "up"

\* As in NephexExport; the exporter keeps trying to connect, its timer of 5
\* seconds resets a connection on which nothing comes, and the emulator's loop
\* accepts connections and destroys what is closed.
PeerServed == Exports(AppInput \/ Drain \/ ConnectPeer)
LinkMoves ==
  ConnectEmulator
  \/ \E c \in Clients : EmulatorAccepts(c) \/ EmulatorDestroys(c)
LinkFairness ==
  /\ WF_linkVars(Exports(Loop)) /\ SF_linkVars(PeerServed)
  /\ SF_linkVars(LinkMoves) /\ SF_linkVars(ResetEmulator /\ ~Served)

LinkFairSpec == LinkSpec /\ LinkFairness

-----------------------------------------------------------------------------
(* What must hold of it, beside the properties of NephexExport.            *)

\* The emulator's packet goes to an object that exists: not to one that was
\* destroyed, to one that waits for it, or through the pointer nobody set.
ForwardsToAnObject == reading => client \in Clients /\ object[client] = "open"

\* An exporter that is connected and not served, because the emulator still
\* holds its last connection, or forgot this one when it destroyed another, is
\* served again.
ServedAgain ==
  source = "emulator" /\ link = "up" /\ ~Served ~> Served
=============================================================================
