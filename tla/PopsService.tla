----------------------------- MODULE PopsService -----------------------------
(***************************************************************************)
(* What a POPS driver and the server of its instrument promise together to *)
(* whoever gives orders by the driver's commands and reads the driver's    *)
(* telemetry: the abstract specification that module Pops implements, and  *)
(* on which module CosmidAlgo runs the payload's algorithm.                *)
(*                                                                         *)
(* An order is executed at most once, late, or never, also after the       *)
(* driver lost contact; the statuses the telemetry shows are statuses the  *)
(* server had, in their order; without contact none is shown.              *)
(***************************************************************************)
EXTENDS Sequences, Integers

CONSTANTS
  Orders,      \* the orders given: some of B, E, F
  MaxNews      \* bound: statuses on their way to the driver

\* One record: host, prog and status as in PopsSrvr; sent counts each order on
\* its way; news is the statuses on their way back; contact says that the
\* driver has the server's consent; Srvr is the status in the telemetry; quit
\* says that the driver ended.
VARIABLE svc

\* POPS_status_t.
POPS_idle == 1
POPS_active == 2
POPS_shutdown == 3

Statuses == {POPS_idle, POPS_active, POPS_shutdown}
Services ==
  [host: {"up", "halting", "off"}, prog: {"off", "run"}, status: Statuses,
   sent: [Orders -> Nat], news: Seq(Statuses), contact: BOOLEAN,
   Srvr: Statuses \cup {0}, quit: BOOLEAN]

NoOrders == [c \in Orders |-> 0]

\* The instrument was just switched on, and the driver started.
Fresh ==
  [host |-> "up", prog |-> "off", status |-> POPS_idle, sent |-> NoOrders,
   news |-> <<>>, contact |-> FALSE, Srvr |-> 0, quit |-> FALSE]

Init == svc = Fresh

Running == svc.host # "off"

-----------------------------------------------------------------------------
(* The driver.                                                             *)

\* An order is forwarded if there is contact; it may be lost all the same.
Order(c) ==
  \/ UNCHANGED svc
  \/ svc.contact /\ svc' = [svc EXCEPT !.sent[c] = @ + 1]

Contact ==
  /\ ~svc.quit /\ ~svc.contact /\ Running
  /\ svc' = [svc EXCEPT !.contact = TRUE]

Read ==
  /\ ~svc.quit /\ svc.contact
  /\ \E k \in 1 .. Len(svc.news) :
        svc' = [svc EXCEPT !.Srvr = svc.news[k],
                           !.news = SubSeq(@, k + 1, Len(@))]

LoseContact ==
  /\ ~svc.quit
  /\ svc' = [svc EXCEPT !.contact = FALSE, !.news = <<>>, !.Srvr = 0]

\* The last frame stays in the telemetry.
Quit ==
  /\ ~svc.quit
  /\ svc' = [svc EXCEPT !.quit = TRUE, !.contact = FALSE, !.news = <<>>]

-----------------------------------------------------------------------------
(* The server and the instrument.                                          *)

\* An order is read, once.
Executes(c) == Running /\ c \in Orders /\ svc.sent[c] > 0

Start ==
  /\ Executes("B")
  /\ \E p \in {svc.prog, IF svc.host = "up" THEN "run" ELSE svc.prog} :
        svc' = [svc EXCEPT !.sent["B"] = @ - 1, !.status = POPS_active,
                           !.prog = p]

\* Mutant: the status is not looked at.
HaltsAlways == TRUE
Halts == svc.status # POPS_active

Shutdown ==
  /\ Executes("E")
  /\ svc' = [svc EXCEPT !.sent["E"] = @ - 1, !.status = POPS_shutdown,
                        !.host = IF Halts THEN "halting" ELSE @]

ForcedShutdown ==
  /\ Executes("F")
  /\ svc' = [svc EXCEPT !.sent["F"] = @ - 1, !.status = POPS_shutdown,
                        !.host = "halting"]

\* A reply.
Report ==
  /\ Running /\ svc.contact /\ Len(svc.news) < MaxNews
  /\ svc' = [svc EXCEPT !.news = Append(@, svc.status)]

\* The software obeys an order that was forwarded to it.
Ends ==
  /\ Running /\ svc.prog = "run"
  /\ svc' = [svc EXCEPT !.prog = "off"]

\* The computer halts or loses its power, and what was sent to it is lost.
Stops ==
  /\ Running
  /\ svc' = [svc EXCEPT !.host = "off", !.prog = "off", !.sent = NoOrders]

Boots ==
  /\ ~Running
  /\ svc' = [svc EXCEPT !.host = "up", !.status = POPS_idle]

-----------------------------------------------------------------------------
Driver == Contact \/ Read \/ LoseContact \/ Quit
Instrument ==
  \/ Start \/ Shutdown \/ ForcedShutdown \/ Report \/ Ends \/ Stops \/ Boots

Next == (\E c \in Orders : Order(c)) \/ Driver \/ Instrument

Spec == Init /\ [][Next]_svc
=============================================================================
