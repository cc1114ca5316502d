--------------------------- MODULE NephexEmulator ---------------------------
(***************************************************************************)
(* nephex_emulator (src/Nephex/nephex_emulator.{h,cc}), which plays a      *)
(* recorded file to a TCP client in place of the nephelometer: the one     *)
(* client that class NE_ingest serves, and the objects (class nephex_tcp)  *)
(* that are made for the connections and register with it.  Module         *)
(* NephexLink has nephex_export at the other end.                          *)
(*                                                                         *)
(* The file is a source of whole packets, of which one may be due at any   *)
(* time: how it is read, and its pace, are not modelled.                   *)
(***************************************************************************)
EXTENDS Sequences

CONSTANTS
  Clients,     \* the connections there can be at a time
  NoClient,    \* the null pointer
  WildClient   \* a pointer nobody set

\* object is what there is of each connection: "none", "queued" before it is
\* accepted, "open", or "doomed", given to delete_child() and not destroyed
\* yet; client and reading are client and Fl_Read of NE_ingest; obuf is the
\* packet that waits in the library for a connection.
VARIABLES object, client, reading, obuf

\* The constructor of NE_ingest does not set client.
Init ==
  /\ object = [c \in Clients |-> "none"] /\ client \in {NoClient, WildClient}
  /\ reading = FALSE /\ obuf = [c \in Clients |-> <<>>]

\* The other end connects.
Arrives(c) ==
  /\ object[c] = "none"
  /\ object' = [object EXCEPT ![c] = "queued"]
  /\ UNCHANGED <<client, reading, obuf>>

\* set_client() returns true.
Set == client # NoClient

\* new_client() and connected().
Connected(c) ==
  /\ object[c] = "queued"
  /\ IF Set
     THEN /\ object' = [object EXCEPT ![c] = "doomed"]
          /\ UNCHANGED <<client, reading>>
     ELSE /\ object' = [object EXCEPT ![c] = "open"]
          /\ client' = c /\ reading' = TRUE
  /\ UNCHANGED obuf

\* Mutants: NE is not told; it only stops reading.
ResetNothing == UNCHANGED <<reading, client>>
ResetReading == reading' = FALSE /\ UNCHANGED client
reset_client == reading' = FALSE /\ client' = NoClient

\* ~nephex_tcp(), of an object that connected() refused, or whose other end is
\* closed: NE forgets its client, whoever that is.  Between the end of the
\* connection and this step the library may hold the object for deletion; it is
\* registered as before, and what NE writes to it is lost, so that it stays
\* "open" here.
Destroy(c, closed) ==
  /\ object[c] = "doomed" \/ (object[c] = "open" /\ closed)
  /\ object' = [object EXCEPT ![c] = "none"]
  /\ obuf' = [obuf EXCEPT ![c] = <<>>]
  /\ reset_client

\* A packet is due: forward_packet() drops it if the last one still waits.
Takes == client \in Clients /\ obuf[client] = <<>>
Ingest(packet) ==
  /\ reading /\ client # NoClient
  /\ \/ UNCHANGED obuf
     \/ Takes /\ obuf' = [obuf EXCEPT ![client] = packet]
  /\ UNCHANGED <<object, client, reading>>

\* The packet goes out with the call, not later.
Written == Takes /\ obuf' = obuf

Drain(c) ==
  /\ obuf[c] # <<>> /\ obuf' = [obuf EXCEPT ![c] = <<>>]
  /\ UNCHANGED <<object, client, reading>>
=============================================================================
