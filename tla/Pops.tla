-------------------------------- MODULE Pops --------------------------------
(***************************************************************************)
(* The POPS driver (src/POPS/POPS.{cc,h}, POPS_int.h) with the instrument  *)
(* it drives: POPS_client on top of the server of module PopsSrvr          *)
(* (instantiated as Srv).  Of the data (module PopsData) only its age      *)
(* Stale (module PopsStale) is here.                                       *)
(*                                                                         *)
(* POPS_client holds one connection at a time (cur); one it abandoned goes *)
(* on living at the server until everything sent on it was read.           *)
(* POPS.Srvr, the server's status as telemetry shows it, is Srvr here.     *)
(***************************************************************************)
EXTENDS PopsStale, Sequences, FiniteSets, Functions, Integers

CONSTANTS
  Conns, NoConn, MaxSent, MaxPolls, MaxPowerOffs,   \* as in PopsSrvr
  Orders,      \* what the operator orders: some of B, E, F
  MaxHasty     \* bound: timeouts while the server could still answer

VARIABLES
  host, prog, status, sd, eights, sock, serving,
  nSent, askedE, askedF, askedD, offs,    \* as in PopsSrvr
  link,        \* "down", "connected" or, with the server's consent, "up"
  cur,         \* the connection, or NoConn
  Srvr,        \* POPS.Srvr
  srvr_Stale,
  timer,       \* Fl_Timeout and TO
  quit,        \* the driver's loop ended
  late,        \* history: an order was executed on an abandoned connection
               \* since the server last replied on cur
  hasty        \* history: counts the timeouts MaxHasty bounds

Srv == INSTANCE PopsSrvr WITH Commands <- Orders \cup {"V"}

srvVars == <<host, prog, status, sd, eights, sock, serving, nSent, askedE,
             askedF, askedD, offs>>
clientVars == <<link, cur, Srvr, srvr_Stale, timer, quit>>
pastVars == <<late, hasty>>
vars == <<srvVars, Stale, clientVars, pastVars>>

ASSUME PopsAssumption ==
  /\ IsFiniteSet(Conns) /\ NoConn \notin Conns
  /\ Orders \subseteq {"B", "E", "F"}
  /\ MaxSent \in Nat /\ MaxPolls \in Nat /\ MaxPowerOffs \in Nat
  /\ MaxHasty \in Nat

Init ==
  /\ Srv!Init /\ Stale = 0
  /\ link = "down" /\ cur = NoConn
  /\ Srvr = 0 /\ srvr_Stale = 0 /\ timer = FALSE /\ quit = FALSE
  /\ late = FALSE /\ hasty = 0

-----------------------------------------------------------------------------
(* POPS_client.                                                            *)

\* forward(): the command goes out only with the server's consent.
Forward(c) ==
  IF link = "up" THEN Srv!Send(cur, c) /\ timer' = TRUE
  ELSE UNCHANGED <<srvVars, timer>>

\* The library connects, at once or some seconds after connect_later().
Connect ==
  /\ ~quit /\ link = "down"
  /\ \E i \in Conns : Srv!Accept(i) /\ cur' = i
  /\ link' = "connected" /\ late' = FALSE
  /\ UNCHANGED <<Stale, Srvr, srvr_Stale, timer, quit, hasty>>

\* Mutant: srvr_Stale is a wider integer.
BumpedWide == srvr_Stale + 1

\* ++srvr_Stale of a uint8_t.
Bumped == (srvr_Stale + 1) % (ByteMax + 1)

\* Mutant: app_connected() only counts.
NegotiateSilently ==
  /\ ~quit /\ link = "connected" /\ sock[cur].srv = "open"
  /\ link' = "up" /\ srvr_Stale' = Bumped
  /\ UNCHANGED <<srvVars, Stale, cur, Srvr, timer, quit, pastVars>>

\* The server agrees, and app_connected() asks for the status.
Negotiate ==
  /\ ~quit /\ link = "connected" /\ sock[cur].srv = "open"
  /\ link' = "up"
  /\ Srv!Send(cur, "V") /\ timer' = TRUE
  /\ srvr_Stale' = Bumped
  /\ UNCHANGED <<Stale, cur, Srvr, quit, pastVars>>

\* POPS_Cmd::app_input() with an order.
Order(c) ==
  /\ ~quit
  /\ Forward(c)
  /\ UNCHANGED <<Stale, link, cur, Srvr, srvr_Stale, quit, pastVars>>

\* Mutant: a reply does not reset srvr_Stale.
FreshServerNot == srvr_Stale
FreshServer == 0

\* Mutant: the first of the replies is shown, not the last.
ShownFirst(k) == Head(sock[cur].rep)
Shown(k) == sock[cur].rep[k]

\* app_input() with k replies: whatever they answer, nothing times out now.
AppInput ==
  /\ ~quit /\ link = "up"
  /\ \E k \in 1 .. Len(sock[cur].rep) :
        Srv!TakeReplies(cur, k) /\ Srvr' = Shown(k)
  /\ timer' = FALSE /\ srvr_Stale' = FreshServer
  /\ UNCHANGED <<Stale, link, cur, quit, pastVars>>

\* The connection is given up for a new one.
GiveUp ==
  /\ Srv!Hangup(cur)
  /\ link' = "down" /\ cur' = NoConn /\ timer' = FALSE
  /\ UNCHANGED <<Stale, srvr_Stale, quit, late>>

\* Mutant: the last status stays in the telemetry.
SrvrKept == Srvr
SrvrLost == 0

\* No answer will come on cur.
Silent == sock[cur].srv # "open"

\* protocol_timeout(), or the library's while it connects.
Timeout ==
  /\ ~quit /\ link # "down" /\ (link = "connected" \/ timer)
  /\ Silent \/ hasty < MaxHasty
  /\ hasty' = IF Silent THEN hasty ELSE hasty + 1
  /\ Srvr' = SrvrLost
  /\ GiveUp

\* app_process_eof(): the server's end was closed, or does not know the
\* connection.
Eof ==
  /\ ~quit /\ link # "down"
  /\ sock[cur].srv = "fin" \/ (sock[cur].srv = "gone" /\ host = "up")
  /\ Srvr' = SrvrLost
  /\ GiveUp /\ UNCHANGED hasty

\* tm_sync(): with old data the server is polled, one poll at a time.
Polls == Stale' > 2 /\ link # "down" /\ srvr_Stale = 0
TmSync ==
  /\ ~quit
  /\ Stale' = Aged
  /\ IF Polls
     THEN Forward("V") /\ srvr_Stale' = Bumped
     ELSE /\ UNCHANGED <<srvVars, timer>>
          /\ srvr_Stale' = IF /\ Stale' > 2 /\ link # "down"
                              /\ srvr_Stale < ByteMax
                           THEN srvr_Stale + 1 ELSE srvr_Stale
  /\ UNCHANGED <<link, cur, Srvr, quit, pastVars>>

\* POPS_Cmd::app_input() with Q: the process ends and its socket is closed.
Quit ==
  /\ ~quit /\ quit' = TRUE
  /\ IF cur = NoConn THEN UNCHANGED srvVars ELSE Srv!Hangup(cur)
  /\ link' = "down" /\ cur' = NoConn /\ timer' = FALSE
  /\ UNCHANGED <<Stale, Srvr, srvr_Stale, pastVars>>

-----------------------------------------------------------------------------
(* The server, the instrument and their network.                           *)

\* The software sends a sample while it runs.
Sample ==
  /\ ~quit /\ prog = "run"
  /\ Stale' = 0
  /\ UNCHANGED <<srvVars, clientVars, pastVars>>

Served(A) ==
  /\ A
  /\ UNCHANGED <<Stale, clientVars, hasty>>

ServerRuns ==
  /\ Served(Srv!ProtocolInput)
  /\ late' = IF serving = cur THEN late /\ serving' = cur
             ELSE late \/ status' # status

ServerReads(i) == Served(Srv!Read(i)) /\ UNCHANGED late
Elsewhere ==
  /\ Served(Srv!Machine \/ Srv!ShutdownConnected
            \/ \E i \in Conns : Srv!Reap(i))
  /\ UNCHANGED late

Driver ==
  \/ Connect \/ Negotiate \/ AppInput \/ Timeout \/ Eof \/ TmSync \/ Quit
  \/ \E c \in Orders : Order(c)

Next ==
  \/ Driver \/ Sample
  \/ ServerRuns \/ Elsewhere
  \/ \E i \in Conns : ServerReads(i)

Spec == Init /\ [][Next]_vars

\* The event loop of the driver serves its sockets, timers and the telemetry
\* clock, that of the server its connections; the library keeps trying to
\* connect.
Fairness ==
  /\ WF_vars(ServerRuns) /\ \A i \in Conns : SF_vars(ServerReads(i))
  /\ WF_vars(\E i \in Conns : Served(Srv!Reap(i)) /\ UNCHANGED late)
  /\ SF_vars(Connect) /\ SF_vars(Negotiate) /\ SF_vars(AppInput)
  /\ WF_vars(Timeout /\ Silent) /\ WF_vars(TmSync)

FairSpec == Spec /\ Fairness

-----------------------------------------------------------------------------
(* What must hold of it.                                                   *)

\* Every variable has its type; what POPS_client holds is a connection of its
\* own, and a timer runs only with the server's consent.
TypeOK ==
  /\ Srv!TypeOK
  /\ link \in {"down", "connected", "up"}
  /\ cur \in Conns \cup {NoConn} /\ (cur = NoConn <=> link = "down")
  /\ link # "down" => sock[cur].peer
  /\ Srvr \in 0 .. 3 /\ srvr_Stale \in 0 .. ByteMax /\ Stale \in 0 .. ByteMax
  /\ timer => link = "up"
  /\ hasty \in 0 .. MaxHasty /\ late \in BOOLEAN

\* Orders c that the server has still to execute, on whatever connection.
Unread(i) == sock[i].buf \o sock[i].req
Times(c, line) == Cardinality({k \in DOMAIN line : line[k] = c})
OnTheirWay(c) == SumFunction([i \in Conns |-> Times(c, Unread(i))])

\* Driver and server keep the promise of PopsService: each order is executed
\* once at most, however connections break and time out, the telemetry shows
\* in their order statuses the server had on this connection, and none without
\* the server's consent.
AsService ==
  [host |-> host, prog |-> prog, status |-> status,
   sent |-> [c \in Orders |-> OnTheirWay(c)],
   news |-> IF cur = NoConn THEN <<>> ELSE sock[cur].rep,
   contact |-> link = "up", Srvr |-> Srvr, quit |-> quit]

Service == INSTANCE PopsService WITH
  MaxNews <- MaxPolls + MaxSent + 1, svc <- AsService
ServiceSpec == Service!Spec

\* When nothing is on its way on its connection, the telemetry shows the
\* status the server has, whatever was sent, read together, abandoned and
\* answered before (unless an abandoned connection changed it behind POPS's
\* back, or the server is gone and that was not noticed yet).
NothingOnItsWay ==
  /\ sock[cur].srv = "open" /\ serving # cur
  /\ sock[cur].req = <<>> /\ sock[cur].rep = <<>>
StatusSettled == link = "up" /\ NothingOnItsWay /\ ~late => Srvr = status

\* A server that is gone is noticed, also when nobody orders anything: the
\* data it should send grow stale and the server is polled.
DeadServerNoticed ==
  link # "down" /\ sock[cur].srv # "open" ~> link = "down" \/ quit \/ Srvr = 0

\* The driver finds a server that is there, and its status.
ContactMade == Srvr = 0 ~> Srvr # 0 \/ quit \/ host # "up"
=============================================================================
