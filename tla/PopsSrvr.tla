------------------------------ MODULE PopsSrvr ------------------------------
(***************************************************************************)
(* POPS_srvr (src/BBB/srvr/POPS_srvr.{h,cc}), the server on the computer   *)
(* of a POPS instrument that starts the POPS software, and stops it or the *)
(* whole computer, at the order of its TCP clients.                        *)
(*                                                                         *)
(* A command is one letter (its newline is not modelled) and a reply the   *)
(* number it carries, or ErrorReply.  One thread serves every connection:  *)
(* serving is the one whose protocol_input() runs, and each turn of its    *)
(* loop is a step, because the software, the computer and the network move *)
(* on meanwhile (system() returns only when systemctl does).  The clients, *)
(* the network, the POPS software and the computer are external.           *)
(***************************************************************************)
EXTENDS Sequences, FiniteSets, Integers

CONSTANTS
  Conns,       \* the connections there can be at a time
  NoConn,      \* no connection: not a member of Conns
  Commands,    \* the letters clients send
  MaxSent,     \* bound: commands other than V ever sent
  MaxPolls,    \* bound: length of what is on its way when V is sent
  MaxPowerOffs \* bound: times the computer loses its power

\* host is the computer, prog the POPS software; status is POPS_status; sd
\* says that Shutdown_UDP::SD is connected; eights counts the "8" datagrams
\* on their way to the software; sock is the connections.
\* History: askedE, askedF and askedD count the commands E, F and D the clients
\* sent, nSent all but V, offs the times the power was lost.
VARIABLES host, prog, status, sd, eights, sock, serving,
          nSent, askedE, askedF, askedD, offs

vars == <<host, prog, status, sd, eights, sock, serving,
          nSent, askedE, askedF, askedD, offs>>
hostVars == <<host, prog, sd, eights>>
pastVars == <<nSent, askedE, askedF, askedD, offs>>

ASSUME PopsSrvrAssumption ==
  /\ NoConn \notin Conns
  /\ Commands \subseteq {"V", "B", "E", "F", "D", "X"}
  /\ MaxSent \in Nat /\ MaxPolls \in Nat /\ MaxPowerOffs \in Nat

\* POPS_status_t.
POPS_init == 0
POPS_idle == 1
POPS_active == 2
POPS_shutdown == 3
ErrorReply == 4   \* the line "Error: Invalid command"

\* peer says that the client holds its end open.  srv is the server's end:
\* "open" with a pops_socket, "fin" closed in order, "gone" without a word.
\* req, buf and rep are what is on its way to the server, in buf[cp..nc), and
\* on its way back.
Free == [peer |-> FALSE, srv |-> "none", req |-> <<>>, buf |-> <<>>,
         rep |-> <<>>]

Init ==
  /\ host = "up" /\ prog = "off" /\ status = POPS_idle
  /\ sd = FALSE /\ eights = 0
  /\ sock = [i \in Conns |-> Free] /\ serving = NoConn
  /\ nSent = 0 /\ askedE = 0 /\ askedF = 0 /\ askedD = 0 /\ offs = 0

-----------------------------------------------------------------------------
(* The clients.                                                            *)

\* A connection is accepted.
Accept(i) ==
  /\ host = "up" /\ sock[i] = Free
  /\ sock' = [sock EXCEPT ![i] = [Free EXCEPT !.peer = TRUE, !.srv = "open"]]
  /\ UNCHANGED <<hostVars, status, serving, pastVars>>

\* What is sent to a server that is gone is lost.
Sent(i, c) ==
  [sock EXCEPT ![i].req = IF sock[i].srv = "open" THEN Append(@, c) ELSE @]

Send(i, c) ==
  /\ sock[i].peer
  /\ IF c = "V" THEN Len(sock[i].req) + Len(sock[i].rep) < MaxPolls
     ELSE nSent < MaxSent
  /\ sock' = Sent(i, c)
  /\ nSent' = nSent + (IF c = "V" THEN 0 ELSE 1)
  /\ askedE' = askedE + (IF c = "E" THEN 1 ELSE 0)
  /\ askedF' = askedF + (IF c = "F" THEN 1 ELSE 0)
  /\ askedD' = askedD + (IF c = "D" THEN 1 ELSE 0)
  /\ UNCHANGED <<hostVars, status, serving, offs>>

\* The client reads the first k replies.
TakeReplies(i, k) ==
  /\ sock[i].peer /\ k \in 1 .. Len(sock[i].rep)
  /\ sock' = [sock EXCEPT ![i].rep = SubSeq(@, k + 1, Len(@))]
  /\ UNCHANGED <<hostVars, status, serving, pastVars>>

\* The client closes its end: what it sent is still delivered.
HungUp(i) ==
  IF sock[i].srv = "open" THEN [sock[i] EXCEPT !.peer = FALSE, !.rep = <<>>]
  ELSE Free
Hangup(i) ==
  /\ sock[i].peer
  /\ sock' = [sock EXCEPT ![i] = HungUp(i)]
  /\ UNCHANGED <<hostVars, status, serving, pastVars>>

-----------------------------------------------------------------------------
(* The server.                                                             *)

Running == host # "off"
Idle == Running /\ serving = NoConn

\* The library reads some of what arrived and calls protocol_input().
Read(i) ==
  /\ Idle /\ sock[i].srv = "open"
  /\ \E k \in 1 .. Len(sock[i].req) :
        sock' = [sock EXCEPT ![i].buf = @ \o SubSeq(sock[i].req, 1, k),
                             ![i].req = SubSeq(@, k + 1, Len(@))]
  /\ serving' = i
  /\ UNCHANGED <<hostVars, status, pastVars>>

\* The end of a connection whose client hung up.
Reap(i) ==
  /\ Idle /\ sock[i].srv = "open" /\ ~sock[i].peer /\ sock[i].req = <<>>
  /\ sock' = [sock EXCEPT ![i] = Free]
  /\ UNCHANGED <<hostVars, status, serving, pastVars>>

\* One turn of the loop of protocol_input(), for command c.
Turn(c) ==
  /\ Running /\ serving # NoConn
  /\ sock[serving].buf # <<>> /\ Head(sock[serving].buf) = c

\* Mutant: cp does not move on at an E.
ConsumedNotE ==
  [sock EXCEPT ![serving].buf = IF Head(@) = "E" THEN @ ELSE Tail(@)]
Consumed == [sock EXCEPT ![serving].buf = Tail(@)]

Status ==
  /\ Turn("V")
  /\ sock' = Consumed
  /\ UNCHANGED <<hostVars, status, serving, pastVars>>

\* Whether start_POPS succeeded is not looked at.
Start ==
  /\ Turn("B")
  /\ sock' = Consumed /\ status' = POPS_active
  /\ prog' \in {prog, IF host = "up" THEN "run" ELSE prog}
  /\ UNCHANGED <<host, sd, eights, serving, pastVars>>

\* Mutant: the status is not looked at.
HaltsAlways == TRUE
Halts == status # POPS_active

\* With POPS_active the order is forwarded to the software: send_shutdown()
\* writes one datagram, if SD is connected.  Else the computer is halted.
Shutdown ==
  /\ Turn("E")
  /\ sock' = Consumed /\ status' = POPS_shutdown
  /\ IF Halts
     THEN host' = "halting" /\ UNCHANGED eights
     ELSE eights' = eights + (IF sd THEN 1 ELSE 0) /\ UNCHANGED host
  /\ UNCHANGED <<prog, sd, serving, pastVars>>

ForcedShutdown ==
  /\ Turn("F")
  /\ sock' = Consumed /\ status' = POPS_shutdown /\ host' = "halting"
  /\ UNCHANGED <<prog, sd, eights, serving, pastVars>>

\* No reply, and what follows in the buffer waits for the next read.
Disconnect ==
  /\ Turn("D")
  /\ sock' = Consumed /\ serving' = NoConn
  /\ UNCHANGED <<hostVars, status, pastVars>>

\* Mutant: no reply, as for the order D.
RepliedNever(i, s, r) == s

\* The reply goes to a client that holds its end.
Replied(i, s, r) ==
  [s EXCEPT ![i].rep = IF s[i].peer THEN Append(@, r) ELSE @]

Invalid ==
  /\ Turn("X")
  /\ sock' = Replied(serving, Consumed, ErrorReply)
  /\ UNCHANGED <<hostVars, status, serving, pastVars>>

\* send_status() at the end: one reply for all the commands of a read.
Reply ==
  /\ Running /\ serving # NoConn /\ sock[serving].buf = <<>>
  /\ sock' = Replied(serving, sock, status)
  /\ serving' = NoConn
  /\ UNCHANGED <<hostVars, status, pastVars>>

\* SD->connect_later(45).
ShutdownConnected ==
  /\ Running /\ ~sd /\ sd' = TRUE
  /\ UNCHANGED <<host, prog, eights, status, sock, serving, pastVars>>

-----------------------------------------------------------------------------
(* The POPS software and the computer.                                     *)

\* A datagram arrives, and stops the software if it runs, or is lost.
EightArrives ==
  /\ Running /\ eights > 0
  /\ eights' = eights - 1
  /\ prog' \in {prog, "off"}
  /\ UNCHANGED <<host, sd, status, sock, serving, pastVars>>

\* The computer stops; its kernel closes the connections only if it halts.
Stopped(end) ==
  /\ host' = "off" /\ prog' = "off" /\ sd' = FALSE /\ eights' = 0
  /\ sock' = [i \in Conns |->
                IF sock[i].peer
                THEN [sock[i] EXCEPT !.req = <<>>, !.buf = <<>>, !.srv =
                        IF @ = "open" THEN end ELSE @]
                ELSE Free]
  /\ serving' = NoConn

HostHalts ==
  /\ host = "halting" /\ Stopped("fin")
  /\ UNCHANGED <<status, pastVars>>

PowerOff ==
  /\ Running /\ offs < MaxPowerOffs /\ Stopped("gone")
  /\ offs' = offs + 1
  /\ UNCHANGED <<status, nSent, askedE, askedF, askedD>>

\* The computer boots and starts the server, not the software.
PowerOn ==
  /\ host = "off"
  /\ host' = "up" /\ status' = POPS_idle
  /\ UNCHANGED <<prog, sd, eights, sock, serving, pastVars>>

-----------------------------------------------------------------------------
Client(i) ==
  \/ Accept(i) \/ Hangup(i)
  \/ \E c \in Commands : Send(i, c)
  \/ \E k \in 1 .. Len(sock[i].rep) : TakeReplies(i, k)

ProtocolInput ==
  \/ Status \/ Start \/ Shutdown \/ ForcedShutdown \/ Disconnect \/ Invalid
  \/ Reply

Machine == EightArrives \/ HostHalts \/ PowerOff \/ PowerOn

Next ==
  \/ \E i \in Conns : Client(i) \/ Read(i) \/ Reap(i)
  \/ ProtocolInput \/ ShutdownConnected \/ Machine

Spec == Init /\ [][Next]_vars

\* The server's thread runs on and its loop serves every connection; a client
\* reads its replies.
Fairness ==
  /\ WF_vars(ProtocolInput)
  /\ \A i \in Conns :
       /\ SF_vars(Read(i))
       /\ WF_vars(\E k \in 1 .. Len(sock[i].rep) : TakeReplies(i, k))

FairSpec == Spec /\ Fairness

-----------------------------------------------------------------------------
(* What must hold of it.                                                   *)

\* Every variable has its type; a connection with data in it has two ends.
TypeOK ==
  /\ host \in {"up", "halting", "off"} /\ prog \in {"off", "run"}
  /\ status \in {POPS_idle, POPS_active, POPS_shutdown}
  /\ sd \in BOOLEAN /\ eights \in Nat
  /\ \A i \in Conns :
       /\ sock[i].peer \in BOOLEAN
       /\ sock[i].srv \in {"none", "open", "fin", "gone"}
       /\ sock[i].req \in Seq(Commands) /\ sock[i].buf \in Seq(Commands)
       /\ sock[i].rep \in Seq(POPS_idle .. ErrorReply)
       /\ sock[i].srv # "open" => sock[i].req = <<>> /\ sock[i].buf = <<>>
       /\ serving = i => sock[i].srv = "open"
  /\ serving \in Conns \cup {NoConn}

\* The computer is halted under POPS software that runs only at a forced
\* shutdown, or at a second shutdown: one order E, on whatever connections and
\* between whatever other orders, goes to the software.
HaltIsDeliberate ==
  [][host = "up" /\ host' = "halting" /\ prog = "run"
       => askedF > 0 \/ askedE > 1]_vars

\* Every order is read and its client hears of it, unless it hung up, the
\* computer stopped, or some client sent D, which ends the reading of what came
\* with it.
Answered ==
  \A i \in Conns :
    sock[i].req # <<>> ~> \/ sock[i].rep # <<>> \/ ~sock[i].peer
                          \/ sock[i].srv # "open" \/ askedD > 0
=============================================================================
