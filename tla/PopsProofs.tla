----------------------------- MODULE PopsProofs -----------------------------
(***************************************************************************)
(* Theorems of module Pops, for any number of connections and any orders:  *)
(* the driver is a client the server's specification allows, its telemetry *)
(* settles on the server's status, and the two implement PopsService.      *)
(*                                                                         *)
(* How often an order is in a line comes first, then what each step of     *)
(* driver and server does to the connections, then the invariant PopsInv,  *)
(* the refinement, with the orders on their way as a sum over the          *)
(* connections, and last the driver's other half, the data.                *)
(***************************************************************************)
EXTENDS Pops, PopsData, SequenceTheorems, SumTheorems

SrvP == INSTANCE PopsSrvrProofs WITH Commands <- Orders \cup {"V"}

-----------------------------------------------------------------------------
(* How often an order is in a line.                                        *)

\* An order is in a line a number of times, and in an empty one not at all.
LEMMA TimesType ==
  ASSUME NEW C, NEW u \in Seq(C), NEW c
  PROVE  Times(c, u) \in Nat /\ (u = <<>> => Times(c, u) = 0)
<1> DEFINE K == {k \in DOMAIN u : u[k] = c}
<1>1. DOMAIN u = 1 .. Len(u) /\ Len(u) \in Nat
  OBVIOUS
<1>2. IsFiniteSet(1 .. Len(u))
  BY <1>1, FS_Interval
<1>3. IsFiniteSet(K)
  BY <1>1, <1>2, FS_Subset
<1>4. u = <<>> => K = {}
  OBVIOUS
<1> QED
  BY <1>3, <1>4, FS_CardinalityType, FS_EmptySet DEF Times

\* An order put behind a line is once more in it.
LEMMA TimesPut ==
  ASSUME NEW C, NEW u \in Seq(C), NEW x \in C, NEW c
  PROVE  Times(c, Append(u, x)) = Times(c, u) + (IF x = c THEN 1 ELSE 0)
<1> DEFINE K == {k \in DOMAIN u : u[k] = c}
           v == Append(u, x)
           L == {k \in DOMAIN v : v[k] = c}
           n == Len(u) + 1
<1>1. DOMAIN u = 1 .. Len(u) /\ Len(u) \in Nat
  OBVIOUS
<1>2. DOMAIN v = 1 .. n /\ v[n] = x /\ \A k \in 1 .. Len(u) : v[k] = u[k]
  OBVIOUS
<1>3. IsFiniteSet(K)
  <2>1. IsFiniteSet(1 .. Len(u))
    BY <1>1, FS_Interval
  <2> QED
    BY <1>1, <2>1, FS_Subset
<1> HIDE DEF v
<1>4. n \notin K
  BY <1>1
<1>5. L = IF x = c THEN K \cup {n} ELSE K
  BY <1>1, <1>2
<1> HIDE DEF K, L
<1>6. Cardinality(K \cup {n}) = Cardinality(K) + 1 /\ Cardinality(K) \in Nat
  BY <1>3, <1>4, FS_AddElement, FS_CardinalityType
<1>7. Cardinality(L) = Cardinality(K) + (IF x = c THEN 1 ELSE 0)
  BY <1>5, <1>6
<1> QED
  BY <1>7 DEF Times, K, L, v

\* The first order taken off a line is once less in it.
LEMMA TimesTake ==
  ASSUME NEW C, NEW u \in Seq(C), u # <<>>, NEW c
  PROVE  Times(c, Tail(u)) = Times(c, u) - (IF Head(u) = c THEN 1 ELSE 0)
<1> DEFINE t == Tail(u)
           K == {k \in DOMAIN u : u[k] = c}
           L == {k \in DOMAIN t : t[k] = c}
           K1 == K \ {1}
           f == [k \in L |-> k + 1]
<1>1. DOMAIN u = 1 .. Len(u) /\ Len(u) \in Nat \ {0} /\ Head(u) = u[1]
  OBVIOUS
<1>2. DOMAIN t = 1 .. Len(u) - 1 /\ \A k \in 1 .. Len(u) - 1 : t[k] = u[k + 1]
  BY HeadTailProperties
<1>3. IsFiniteSet(K)
  <2>1. IsFiniteSet(1 .. Len(u))
    BY <1>1, FS_Interval
  <2> QED
    BY <1>1, <2>1, FS_Subset
<1> HIDE DEF t
<1>4. IsFiniteSet(L)
  <2>1. IsFiniteSet(1 .. Len(u) - 1)
    BY <1>1, FS_Interval
  <2> QED
    BY <1>1, <1>2, <2>1, FS_Subset
<1>5. f \in Bijection(L, K1)
  <2>1. \A k \in L : k \in Nat /\ k + 1 \in K1
    BY <1>1, <1>2
  <2>2. \A k \in K1 : k - 1 \in L /\ (k - 1) + 1 = k
    BY <1>1, <1>2
  <2> HIDE DEF L, K1
  <2>3. f \in [L -> K1]
    BY <2>1
  <2>4. \A j, k \in L : f[j] = f[k] => j = k
    BY <2>1
  <2>5. \A k \in K1 : \E j \in L : f[j] = k
    BY <2>2
  <2> HIDE DEF f
  <2> QED
    BY <2>3, <2>4, <2>5 DEF Bijection, Injection, Surjection, IsInjective
<1>6. Cardinality(K1) = Cardinality(L)
  BY <1>4, <1>5, FS_Bijection DEF ExistsBijection
<1>7. Cardinality(K1) = Cardinality(K) - (IF u[1] = c THEN 1 ELSE 0)
  <2>1. 1 \in K <=> u[1] = c
    BY <1>1
  <2>2. Cardinality(K) \in Nat
    BY <1>3, FS_CardinalityType
  <2>3. Cardinality(K1) = IF 1 \in K THEN Cardinality(K) - 1 ELSE Cardinality(K)
    BY <1>3, FS_RemoveElement, Zenon
  <2> HIDE DEF K, K1
  <2> QED
    BY <2>1, <2>2, <2>3
<1> HIDE DEF K, L, K1
<1> QED
  BY <1>1, <1>6, <1>7 DEF Times, K, L, t

-----------------------------------------------------------------------------
(* The server, as in PopsSrvrProofs.                                       *)

\* The server is the one the lemmas of PopsSrvrProofs are about.
LEMMA SameServer ==
  /\ \A i \in Conns : Srv!Accept(i) <=> SrvP!Accept(i)
  /\ \A i, c : Srv!Send(i, c) <=> SrvP!Send(i, c)
  /\ \A i, k : Srv!TakeReplies(i, k) <=> SrvP!TakeReplies(i, k)
  /\ \A i \in Conns : Srv!Hangup(i) <=> SrvP!Hangup(i)
  /\ \A i \in Conns : Srv!Read(i) <=> SrvP!Read(i)
  /\ \A i \in Conns : Srv!Reap(i) <=> SrvP!Reap(i)
  /\ Srv!Status <=> SrvP!Status
  /\ Srv!Start <=> SrvP!Start
  /\ Srv!Shutdown <=> SrvP!Shutdown
  /\ Srv!ForcedShutdown <=> SrvP!ForcedShutdown
  /\ Srv!Disconnect <=> SrvP!Disconnect
  /\ Srv!Invalid <=> SrvP!Invalid
  /\ Srv!Reply <=> SrvP!Reply
  /\ Srv!ShutdownConnected <=> SrvP!ShutdownConnected
  /\ Srv!EightArrives <=> SrvP!EightArrives
  /\ Srv!HostHalts <=> SrvP!HostHalts
  /\ Srv!PowerOff <=> SrvP!PowerOff
  /\ Srv!PowerOn <=> SrvP!PowerOn
  /\ \A end : Srv!Stopped(end) <=> SrvP!Stopped(end)
  /\ Srv!Init <=> SrvP!Init
  /\ Srv!Next <=> SrvP!Next
  /\ Srv!vars = srvVars /\ SrvP!vars = srvVars
BY DEF srvVars,
  Srv!Accept, SrvP!Accept, Srv!Send, SrvP!Send, Srv!TakeReplies,
  SrvP!TakeReplies, Srv!Hangup, SrvP!Hangup, Srv!Read, SrvP!Read, Srv!Reap,
  SrvP!Reap, Srv!Status, SrvP!Status, Srv!Start, SrvP!Start, Srv!Shutdown,
  SrvP!Shutdown, Srv!ForcedShutdown, SrvP!ForcedShutdown, Srv!Disconnect,
  SrvP!Disconnect, Srv!Invalid, SrvP!Invalid, Srv!Reply, SrvP!Reply,
  Srv!ShutdownConnected, SrvP!ShutdownConnected, Srv!EightArrives,
  SrvP!EightArrives, Srv!HostHalts, SrvP!HostHalts, Srv!PowerOff,
  SrvP!PowerOff, Srv!PowerOn, SrvP!PowerOn, Srv!Free, SrvP!Free, Srv!Sent,
  SrvP!Sent, Srv!HungUp, SrvP!HungUp, Srv!Running, SrvP!Running, Srv!Idle,
  SrvP!Idle, Srv!Turn, SrvP!Turn, Srv!Consumed, SrvP!Consumed, Srv!Halts,
  SrvP!Halts, Srv!Replied, SrvP!Replied, Srv!Stopped, SrvP!Stopped,
  Srv!Client, SrvP!Client, Srv!ProtocolInput, SrvP!ProtocolInput,
  Srv!Machine, SrvP!Machine, Srv!Next, SrvP!Next, Srv!Init, SrvP!Init,
  Srv!vars, SrvP!vars, Srv!hostVars, SrvP!hostVars, Srv!pastVars,
  SrvP!pastVars, Srv!POPS_idle, SrvP!POPS_idle, Srv!POPS_active,
  SrvP!POPS_active, Srv!POPS_shutdown, SrvP!POPS_shutdown, Srv!ErrorReply,
  SrvP!ErrorReply

\* The driver assumes what module PopsSrvr does.
LEMMA ServerAssumption ==
  /\ NoConn \notin Conns
  /\ Orders \cup {"V"} \subseteq {"V", "B", "E", "F", "D", "X"}
  /\ MaxSent \in Nat /\ MaxPolls \in Nat /\ MaxPowerOffs \in Nat
BY PopsAssumption

-----------------------------------------------------------------------------
(* The invariant.                                                          *)

\* POPS_client's link.  Nothing was sent on a connection before the server's
\* consent, nor answered.
Linked ==
  /\ link \in {"down", "connected", "up"} /\ cur \in Conns \cup {NoConn}
  /\ cur = NoConn <=> link = "down"
  /\ link # "down" => sock[cur].peer
  /\ link = "connected" =>
       /\ sock[cur].req = <<>> /\ sock[cur].buf = <<>> /\ sock[cur].rep = <<>>
       /\ serving # cur
  /\ timer => link = "up"
  /\ quit => link = "down"

\* The telemetry and the history.
Counted ==
  /\ Srvr \in 0 .. 3 /\ srvr_Stale \in 0 .. ByteMax /\ Stale \in 0 .. ByteMax
  /\ hasty \in 0 .. MaxHasty /\ late \in BOOLEAN

\* How many commands and replies are on their way on connection i, and whether
\* one more reply is made.
Asking(i) == Len(sock[i].req)
Telling(i) == Len(sock[i].rep)
Serves(i) == IF serving = i THEN 1 ELSE 0

\* What waits at an open connection waits at a running server, in the buffer
\* only while that is served; its replies are statuses, and so many at most.
AtServer(i) ==
  /\ sock[i].srv = "open" => host # "off"
  /\ serving # i => sock[i].buf = <<>>
  /\ sock[i].rep \in Seq(1 .. 3)
Room(i) == Asking(i) + Telling(i) + Serves(i) <= MaxPolls + nSent + 1
Waiting == \A i \in Conns : AtServer(i) /\ Room(i)

\* The last reply on its way is the server's status; if none is, the telemetry
\* shows that status already, or a request for it is on its way.
LastKnown ==
  IF sock[cur].rep # <<>> THEN sock[cur].rep[Len(sock[cur].rep)] = status
  ELSE Srvr = status \/ sock[cur].req # <<>>
Settling ==
  link = "up" /\ sock[cur].srv = "open" /\ serving # cur /\ ~late => LastKnown

PopsInv ==
  /\ SrvP!SrvrInv /\ Linked /\ Counted
  /\ nSent \in 0 .. MaxSent /\ Waiting
  /\ Settling

-----------------------------------------------------------------------------
(* Driver and server.                                                      *)

\* A step of the driver is one of a client of the server, or none of the
\* server's business.
LEMMA ClientOf ==
  ASSUME NEW i \in Conns
  PROVE  /\ Srv!Accept(i) => SrvP!Client(i)
         /\ \A c \in Orders \cup {"V"} : Srv!Send(i, c) => SrvP!Client(i)
         /\ \A k \in 1 .. Len(sock[i].rep) : Srv!TakeReplies(i, k) => SrvP!Client(i)
         /\ Srv!Hangup(i) => SrvP!Client(i)
BY SameServer DEF SrvP!Client

\* The driver never leaves the protocol of the server's clients.
LEMMA ServerStep ==
  ASSUME Linked, [Next]_vars
  PROVE  [SrvP!Next]_srvVars
<1>0. \A i \in Conns : SrvP!Client(i) => SrvP!Next
  BY DEF SrvP!Next
<1>1. link # "down" => cur \in Conns
  BY DEF Linked
<1>2. CASE UNCHANGED vars \/ Sample
  BY <1>2 DEF vars, Sample, srvVars
<1>3. CASE Connect
  BY <1>0, <1>3, ClientOf DEF Connect
<1>4. CASE Negotiate
  BY <1>0, <1>1, <1>4, ClientOf DEF Negotiate
<1>5. CASE AppInput
  BY <1>0, <1>1, <1>5, ClientOf DEF AppInput
<1>6. CASE Timeout \/ Eof
  BY <1>0, <1>1, <1>6, ClientOf DEF Timeout, Eof, GiveUp
<1>7. CASE Quit
  BY <1>0, <1>7, ClientOf DEF Quit, Linked
<1>8. ASSUME NEW c \in Orders \cup {"V"}, Forward(c) PROVE [SrvP!Next]_srvVars
  BY <1>0, <1>1, <1>8, ClientOf DEF Forward
<1>9. CASE TmSync
  BY <1>8, <1>9 DEF TmSync
<1>10. ASSUME NEW c \in Orders, Order(c) PROVE [SrvP!Next]_srvVars
  BY <1>8, <1>10 DEF Order
<1>11. CASE ServerRuns
  BY <1>11, SameServer
     DEF ServerRuns, Served, Srv!ProtocolInput, SrvP!ProtocolInput, SrvP!Next
<1>12. CASE Elsewhere
  BY <1>12, SameServer DEF Elsewhere, Served, Srv!Machine, SrvP!Machine, SrvP!Next
<1>13. ASSUME NEW i \in Conns, ServerReads(i) PROVE [SrvP!Next]_srvVars
  BY <1>13, SameServer DEF ServerReads, Served, SrvP!Next
<1> QED
  BY <1>2, <1>3, <1>4, <1>5, <1>6, <1>7, <1>9, <1>10, <1>11, <1>12, <1>13
     DEF Next, Driver

-----------------------------------------------------------------------------
(* What each step does to the connections.                                 *)

\* A connection keeps what is not named.
LEMMA SockType ==
  ASSUME SrvP!Talk, NEW i \in Conns
  PROVE  /\ sock[i] \in SrvP!Socket
         /\ sock[i].peer \in BOOLEAN /\ sock[i].srv \in {"none", "open", "fin", "gone"}
         /\ sock[i].req \in Seq(Orders \cup {"V"}) /\ sock[i].buf \in Seq(Orders \cup {"V"})
         /\ sock[i].rep \in Seq(0 .. 4)
         /\ sock[i].srv # "open" => sock[i].req = <<>> /\ sock[i].buf = <<>>
         /\ serving = i => sock[i].srv = "open"
BY DEF SrvP!Talk, SrvP!EndsAgree, SrvP!Sockets, SrvP!Socket, SrvP!POPS_idle,
       SrvP!ErrorReply

Others(i) == \A j \in Conns \ {i} : sock'[j] = sock[j]

\* A client's new connection.
LEMMA AcceptIs ==
  ASSUME SrvP!Talk, NEW i \in Conns, Srv!Accept(i)
  PROVE  /\ Others(i) /\ UNCHANGED <<host, status, serving, nSent>>
         /\ sock'[i].peer /\ sock'[i].srv = "open" /\ sock[i].srv = "none"
         /\ sock'[i].req = <<>> /\ sock'[i].buf = <<>> /\ sock'[i].rep = <<>>
         /\ host # "off"
BY DEF Srv!Accept, Srv!Free, SrvP!Talk, SrvP!Sockets, Others, Srv!hostVars, Srv!pastVars

\* A command goes to the server, if it is there.
LEMMA SendIs ==
  ASSUME SrvP!Talk, NEW i \in Conns, NEW c, Srv!Send(i, c)
  PROVE  /\ Others(i) /\ UNCHANGED <<host, status, serving>>
         /\ sock[i].peer /\ sock'[i].peer /\ sock'[i].srv = sock[i].srv
         /\ sock'[i].req = IF sock[i].srv = "open" THEN Append(sock[i].req, c)
                           ELSE sock[i].req
         /\ sock'[i].buf = sock[i].buf /\ sock'[i].rep = sock[i].rep
<1>1. /\ Others(i) /\ UNCHANGED <<host, status, serving>>
      /\ sock[i].peer /\ sock'[i].peer /\ sock'[i].srv = sock[i].srv
      /\ sock'[i].buf = sock[i].buf /\ sock'[i].rep = sock[i].rep
  BY DEF Srv!Send, Srv!Sent, SrvP!Talk, SrvP!Sockets, SrvP!Socket, Others, Srv!hostVars
<1>2. sock'[i].req = IF sock[i].srv = "open" THEN Append(sock[i].req, c) ELSE sock[i].req
  BY DEF Srv!Send, Srv!Sent, SrvP!Talk, SrvP!Sockets, SrvP!Socket
<1> QED
  BY <1>1, <1>2

\* A poll is one of so many at a time, an order one of so many at all.
LEMMA SendCounts ==
  ASSUME nSent \in Nat, NEW i \in Conns, NEW c, Srv!Send(i, c)
  PROVE  IF c = "V" THEN nSent' = nSent /\ Len(sock[i].req) + Len(sock[i].rep) < MaxPolls
         ELSE nSent' = nSent + 1 /\ nSent < MaxSent
<1>1. CASE c = "V"
  <2>1. nSent' = nSent + 0
    BY <1>1, Zenon DEF Srv!Send
  <2>2. nSent' = nSent
    BY <2>1
  <2>3. Len(sock[i].req) + Len(sock[i].rep) < MaxPolls
    BY <1>1, Zenon DEF Srv!Send
  <2> QED
    BY <1>1, <2>2, <2>3, Zenon
<1>2. CASE c # "V"
  BY <1>2, Zenon DEF Srv!Send
<1> QED
  BY <1>1, <1>2

\* The client takes replies.
LEMMA TakeRepliesIs ==
  ASSUME SrvP!Talk, NEW i \in Conns, NEW k, Srv!TakeReplies(i, k)
  PROVE  /\ Others(i) /\ UNCHANGED <<host, status, serving, nSent>>
         /\ k \in 1 .. Len(sock[i].rep)
         /\ sock'[i].peer = sock[i].peer /\ sock'[i].srv = sock[i].srv
         /\ sock'[i].req = sock[i].req /\ sock'[i].buf = sock[i].buf
         /\ sock'[i].rep = SubSeq(sock[i].rep, k + 1, Len(sock[i].rep))
BY DEF Srv!TakeReplies, SrvP!Talk, SrvP!Sockets, SrvP!Socket, Others, Srv!hostVars,
       Srv!pastVars

\* The client hangs up.
LEMMA HangupIs ==
  ASSUME SrvP!Talk, NEW i \in Conns, Srv!Hangup(i)
  PROVE  /\ Others(i) /\ UNCHANGED <<host, status, serving, nSent>>
         /\ sock'[i].srv = "open" => sock[i].srv = "open"
         /\ sock'[i].req = sock[i].req /\ sock'[i].buf = sock[i].buf
         /\ sock'[i].rep = <<>>
<1>1. /\ Others(i) /\ UNCHANGED <<host, status, serving, nSent>>
      /\ sock'[i] = Srv!HungUp(i)
  BY DEF Srv!Hangup, SrvP!Talk, SrvP!Sockets, Others, Srv!hostVars, Srv!pastVars
<1>2. CASE sock[i].srv = "open"
  BY <1>1, <1>2, SockType DEF Srv!HungUp, SrvP!Socket
<1>3. CASE sock[i].srv # "open"
  BY <1>1, <1>3, SockType DEF Srv!HungUp, Srv!Free
<1> QED
  BY <1>1, <1>2, <1>3

\* The server reads from a connection.
LEMMA ReadIs ==
  ASSUME SrvP!Talk, NEW i \in Conns, Srv!Read(i)
  PROVE  /\ Others(i) /\ UNCHANGED <<host, status, nSent>>
         /\ serving = NoConn /\ serving' = i /\ host # "off"
         /\ sock'[i].peer = sock[i].peer /\ sock'[i].srv = sock[i].srv
         /\ sock'[i].rep = sock[i].rep
         /\ sock[i].req # <<>> /\ Len(sock'[i].req) < Len(sock[i].req)
<1>1. PICK k \in 1 .. Len(sock[i].req) :
        sock' = [sock EXCEPT ![i].buf = @ \o SubSeq(sock[i].req, 1, k),
                             ![i].req = SubSeq(@, k + 1, Len(@))]
  BY DEF Srv!Read
<1>2. /\ sock'[i].req = SubSeq(sock[i].req, k + 1, Len(sock[i].req))
      /\ sock'[i].peer = sock[i].peer /\ sock'[i].srv = sock[i].srv
      /\ sock'[i].rep = sock[i].rep /\ Others(i)
  BY <1>1, SockType DEF SrvP!Talk, SrvP!Sockets, SrvP!Socket, Others
<1>3. Len(sock[i].req) \in Nat /\ sock[i].req # <<>>
      /\ Len(SubSeq(sock[i].req, k + 1, Len(sock[i].req))) < Len(sock[i].req)
  BY SockType
<1> QED
  BY <1>2, <1>3 DEF Srv!Read, Srv!Idle, Srv!Running, Srv!hostVars, Srv!pastVars

\* The end of an abandoned connection.
LEMMA ReapIs ==
  ASSUME SrvP!Talk, NEW i \in Conns, Srv!Reap(i)
  PROVE  /\ Others(i) /\ UNCHANGED <<host, status, serving, nSent>>
         /\ ~sock[i].peer /\ sock[i].req = <<>> /\ serving = NoConn
         /\ sock'[i].srv = "none" /\ sock'[i].req = <<>> /\ sock'[i].buf = <<>>
         /\ sock'[i].rep = <<>>
BY DEF Srv!Reap, Srv!Idle, Srv!Free, SrvP!Talk, SrvP!Sockets, Others, Srv!hostVars,
       Srv!pastVars

\* The turns of the loop of protocol_input() that there are.
Turns == Srv!Status \/ Srv!Start \/ Srv!Shutdown \/ Srv!ForcedShutdown

\* A turn of the loop.
LEMMA TurnIs ==
  ASSUME SrvP!Talk, Turns
  PROVE  /\ Others(serving) /\ UNCHANGED <<serving, nSent>>
         /\ serving \in Conns /\ host # "off" /\ host' # "off"
         /\ sock'[serving].peer = sock[serving].peer
         /\ sock'[serving].srv = sock[serving].srv
         /\ sock'[serving].req = sock[serving].req
         /\ sock'[serving].rep = sock[serving].rep
<1>1. /\ sock' = Srv!Consumed /\ serving # NoConn /\ host # "off" /\ host' # "off"
      /\ UNCHANGED <<serving, nSent>>
  BY DEF Turns, Srv!Status, Srv!Start, Srv!Shutdown, Srv!ForcedShutdown, Srv!Turn,
         Srv!Running, Srv!hostVars, Srv!pastVars
<1>2. serving \in Conns
  BY <1>1 DEF SrvP!Talk
<1> QED
  BY <1>1, <1>2 DEF Srv!Consumed, SrvP!Talk, SrvP!Sockets, SrvP!Socket, Others

\* The driver orders neither D nor what is no command.
LEMMA OnlyTurns ==
  ASSUME SrvP!Talk
  PROVE  Srv!ProtocolInput => Turns \/ Srv!Reply
<1>1. ASSUME Srv!Turn("D") \/ Srv!Turn("X") PROVE FALSE
  <2>1. /\ serving \in Conns /\ sock[serving].buf # <<>>
        /\ Head(sock[serving].buf) \in {"D", "X"}
    BY <1>1 DEF Srv!Turn, SrvP!Talk
  <2>2. sock[serving].buf \in Seq(Orders \cup {"V"})
    BY <2>1, SockType
  <2>3. Head(sock[serving].buf) \in Orders \cup {"V"}
    BY <2>1, <2>2
  <2> QED
    BY <2>1, <2>3, PopsAssumption
<1> QED
  BY <1>1 DEF Srv!ProtocolInput, Turns, Srv!Disconnect, Srv!Invalid

\* The reply at the end of protocol_input().
LEMMA ReplyIs ==
  ASSUME SrvP!Talk, Srv!Reply
  PROVE  /\ Others(serving) /\ UNCHANGED <<host, prog, status, nSent>>
         /\ serving \in Conns /\ serving' = NoConn /\ host # "off"
         /\ sock[serving].buf = <<>> /\ sock'[serving].buf = <<>>
         /\ sock'[serving].peer = sock[serving].peer
         /\ sock'[serving].srv = sock[serving].srv
         /\ sock'[serving].req = sock[serving].req
         /\ sock'[serving].rep = IF sock[serving].peer
                                 THEN Append(sock[serving].rep, status)
                                 ELSE sock[serving].rep
<1>1. serving \in Conns
  BY DEF Srv!Reply, SrvP!Talk
<1> QED
  BY <1>1 DEF Srv!Reply, Srv!Replied, Srv!Running, Srv!hostVars, Srv!pastVars,
              SrvP!Talk, SrvP!Sockets, SrvP!Socket, Others

\* The computer stops.
LEMMA StoppedIs ==
  ASSUME SrvP!Talk, NEW end \in {"fin", "gone"}, Srv!Stopped(end), NEW i \in Conns
  PROVE  /\ host' = "off" /\ serving' = NoConn
         /\ (sock'[i].peer <=> sock[i].peer) /\ sock'[i].srv # "open"
         /\ sock'[i].req = <<>> /\ sock'[i].buf = <<>>
         /\ sock'[i].rep = IF sock[i].peer THEN sock[i].rep ELSE <<>>
<1>1. /\ host' = "off" /\ serving' = NoConn
      /\ sock'[i] = IF sock[i].peer
                    THEN [sock[i] EXCEPT !.req = <<>>, !.buf = <<>>, !.srv =
                            IF @ = "open" THEN end ELSE @]
                    ELSE Srv!Free
  BY DEF Srv!Stopped
<1>2. CASE sock[i].peer
  BY <1>1, <1>2, SockType DEF SrvP!Socket
<1>3. CASE ~sock[i].peer
  BY <1>1, <1>3, SockType DEF Srv!Free
<1> QED
  BY <1>1, <1>2, <1>3

-----------------------------------------------------------------------------
(* The invariant is inductive: what waits at the server.                   *)

Sizes(i) == Asking(i) \in Nat /\ Telling(i) \in Nat /\ Serves(i) \in {0, 1}

\* Lengths are naturals.
LEMMA SizesAre ==
  ASSUME NEW i \in Conns
  PROVE  (SrvP!Talk => Sizes(i)) /\ (SrvP!Talk' => Sizes(i)')
<1>1. ASSUME NEW q \in Seq(Orders \cup {"V"}), NEW r \in Seq(0 .. 4)
      PROVE  Len(q) \in Nat /\ Len(r) \in Nat
  OBVIOUS
<1>2. /\ SrvP!Talk => sock[i].req \in Seq(Orders \cup {"V"}) /\ sock[i].rep \in Seq(0 .. 4)
      /\ SrvP!Talk' => sock'[i].req \in Seq(Orders \cup {"V"}) /\ sock'[i].rep \in Seq(0 .. 4)
  BY DEF SrvP!Talk, SrvP!Sockets, SrvP!Socket, SrvP!POPS_idle, SrvP!ErrorReply
<1>3. Serves(i) \in {0, 1} /\ Serves(i)' \in {0, 1}
  BY DEF Serves
<1> QED
  BY <1>1, <1>2, <1>3, Zenon DEF Sizes, Asking, Telling

\* There is room when no more is on its way than was, or as a poll allows.
LEMMA RoomFor ==
  ASSUME NEW i \in Conns, Room(i), Sizes(i), Sizes(i)', nSent \in Nat, nSent' \in Nat,
         nSent' >= nSent,
         \/ Asking(i)' + Telling(i)' + Serves(i)' <=
              Asking(i) + Telling(i) + Serves(i) + (nSent' - nSent)
         \/ Asking(i)' + Telling(i)' + Serves(i)' <= MaxPolls + 1
  PROVE  Room(i)'
BY PopsAssumption DEF Room, Sizes

\* A connection that a step leaves alone.
LEMMA WaitingKept ==
  ASSUME SrvP!Talk, SrvP!Talk', Waiting, NEW j \in Conns, sock'[j] = sock[j],
         nSent \in Nat, nSent' \in Nat, nSent' >= nSent,
         serving' = j <=> serving = j, host' = "off" => host = "off"
  PROVE  AtServer(j)' /\ Room(j)'
<1>1. Sizes(j) /\ Sizes(j)' /\ AtServer(j) /\ Room(j)
  BY SizesAre DEF Waiting
<1>2. AtServer(j)'
  BY <1>1 DEF AtServer
<1>3. Asking(j)' = Asking(j) /\ Telling(j)' = Telling(j) /\ Serves(j)' = Serves(j)
  BY DEF Asking, Telling, Serves
<1>4. Asking(j)' + Telling(j)' + Serves(j)' <=
        Asking(j) + Telling(j) + Serves(j) + (nSent' - nSent)
  BY <1>1, <1>3 DEF Sizes
<1> QED
  BY <1>1, <1>2, <1>4, RoomFor

\* The connections other than i, which a step changes.
LEMMA WaitingBut ==
  ASSUME SrvP!Talk, SrvP!Talk', Waiting, NEW i \in Conns, Others(i),
         nSent \in Nat, nSent' \in Nat, nSent' >= nSent, host' = "off" => host = "off",
         \A j \in Conns \ {i} : serving' = j <=> serving = j, AtServer(i)', Room(i)'
  PROVE  Waiting'
<1> SUFFICES ASSUME NEW j \in Conns, j # i PROVE AtServer(j)' /\ Room(j)'
  BY DEF Waiting
<1>1. sock'[j] = sock[j] /\ (serving' = j <=> serving = j)
  BY DEF Others
<1> QED
  BY <1>1, WaitingKept

\* No connection is NoConn, and the bounds are naturals.
LEMMA Bounds ==
  /\ MaxSent \in Nat /\ MaxPolls \in Nat
  /\ \A i \in Conns : i # NoConn
BY PopsAssumption

\* The steps of the server's clients.
LEMMA WaitingClient ==
  ASSUME SrvP!Talk, SrvP!Talk', nSent \in 0 .. MaxSent, Waiting, NEW i \in Conns,
         \/ Srv!Accept(i) \/ Srv!Hangup(i)
         \/ \E c \in Orders \cup {"V"} : Srv!Send(i, c)
         \/ \E k : Srv!TakeReplies(i, k)
  PROVE  nSent' \in 0 .. MaxSent /\ Waiting'
<1>0. Sizes(i) /\ Sizes(i)' /\ AtServer(i) /\ Room(i)
  BY SizesAre DEF Waiting
<1>1. nSent \in Nat
  BY Bounds
<1>2. CASE Srv!Accept(i)
  <2>1. /\ Others(i) /\ UNCHANGED <<host, serving, nSent>> /\ host # "off"
        /\ sock'[i].req = <<>> /\ sock'[i].buf = <<>> /\ sock'[i].rep = <<>>
    BY <1>2, AcceptIs
  <2>2. AtServer(i)'
    BY <2>1 DEF AtServer
  <2>3. Asking(i)' = 0 /\ Telling(i)' = 0 /\ Serves(i)' <= 1
    BY <2>1 DEF Asking, Telling, Serves
  <2>4. Room(i)'
    BY <1>0, <1>1, <2>1, <2>3, Bounds DEF Room, Sizes
  <2> QED
    BY <1>1, <2>1, <2>2, <2>4, WaitingBut
<1>3. CASE Srv!Hangup(i)
  <2>1. /\ Others(i) /\ UNCHANGED <<host, serving, nSent>>
        /\ sock'[i].srv = "open" => sock[i].srv = "open"
        /\ sock'[i].req = sock[i].req /\ sock'[i].buf = sock[i].buf
        /\ sock'[i].rep = <<>>
    BY <1>3, HangupIs
  <2>2. AtServer(i)'
    BY <1>0, <2>1 DEF AtServer
  <2>3. Asking(i)' = Asking(i) /\ Telling(i)' = 0 /\ Serves(i)' = Serves(i)
    BY <2>1 DEF Asking, Telling, Serves
  <2>4. Room(i)'
    BY <1>0, <1>1, <2>1, <2>3, RoomFor DEF Sizes
  <2> QED
    BY <1>1, <2>1, <2>2, <2>4, WaitingBut
<1>4. ASSUME NEW c \in Orders \cup {"V"}, Srv!Send(i, c)
      PROVE  nSent' \in 0 .. MaxSent /\ Waiting'
  <2>1. /\ Others(i) /\ UNCHANGED <<host, serving>>
        /\ sock'[i].srv = sock[i].srv
        /\ sock'[i].req = IF sock[i].srv = "open" THEN Append(sock[i].req, c)
                          ELSE sock[i].req
        /\ sock'[i].buf = sock[i].buf /\ sock'[i].rep = sock[i].rep
    BY <1>4, SendIs
  <2>2. \/ nSent' = nSent /\ Asking(i) + Telling(i) < MaxPolls
        \/ nSent' = nSent + 1 /\ nSent < MaxSent
    <3>1. nSent \in Nat
      BY <1>1
    <3> QED
      BY <1>4, <3>1, SendCounts, Zenon DEF Asking, Telling
  <2>3. nSent' \in 0 .. MaxSent /\ nSent' \in Nat /\ nSent' >= nSent
    BY <1>1, <2>2, Bounds
  <2>4. AtServer(i)'
    BY <1>0, <2>1 DEF AtServer
  <2>5. Asking(i)' \in {Asking(i), Asking(i) + 1}
    <3>1. sock[i].req \in Seq(Orders \cup {"V"})
      BY SockType
    <3> QED
      BY <2>1, <3>1 DEF Asking
  <2>6. Telling(i)' = Telling(i) /\ Serves(i)' = Serves(i)
    BY <2>1 DEF Telling, Serves
  <2>7. Room(i)'
    <3>1. \/ Asking(i)' + Telling(i)' + Serves(i)' <=
               Asking(i) + Telling(i) + Serves(i) + (nSent' - nSent)
          \/ Asking(i)' + Telling(i)' + Serves(i)' <= MaxPolls + 1
      BY <1>0, <1>1, <2>2, <2>3, <2>5, <2>6, Bounds DEF Sizes
    <3> QED
      BY <1>0, <1>1, <2>3, <3>1, RoomFor
  <2>8. Waiting'
    BY <1>1, <2>1, <2>3, <2>4, <2>7, WaitingBut
  <2> QED
    BY <2>3, <2>8
<1>5. ASSUME NEW k, Srv!TakeReplies(i, k)
      PROVE  nSent' \in 0 .. MaxSent /\ Waiting'
  <2>1. /\ Others(i) /\ UNCHANGED <<host, serving, nSent>>
        /\ k \in 1 .. Len(sock[i].rep)
        /\ sock'[i].srv = sock[i].srv
        /\ sock'[i].req = sock[i].req /\ sock'[i].buf = sock[i].buf
        /\ sock'[i].rep = SubSeq(sock[i].rep, k + 1, Len(sock[i].rep))
    BY <1>5, TakeRepliesIs
  <2>2. sock[i].rep \in Seq(1 .. 3)
    BY <1>0 DEF AtServer
  <2>3. sock'[i].rep \in Seq(1 .. 3)
    BY <2>1, <2>2, SrvP!Rest
  <2>4. AtServer(i)'
    BY <1>0, <2>1, <2>3 DEF AtServer
  <2>5. Telling(i)' < Telling(i)
    BY <2>1, <2>2 DEF Telling
  <2>6. Asking(i)' = Asking(i) /\ Serves(i)' = Serves(i)
    BY <2>1 DEF Asking, Serves
  <2>7. Room(i)'
    BY <1>0, <1>1, <2>1, <2>5, <2>6, RoomFor DEF Sizes
  <2> QED
    BY <1>1, <2>1, <2>4, <2>7, WaitingBut
<1> QED
  BY <1>2, <1>3, <1>4, <1>5

\* The steps of the server.
LEMMA WaitingServer ==
  ASSUME SrvP!Talk, SrvP!Talk', SrvP!MachineType, nSent \in 0 .. MaxSent, Waiting,
         (\E i \in Conns : Srv!Read(i) \/ Srv!Reap(i)) \/ Turns \/ Srv!Reply
  PROVE  nSent' \in 0 .. MaxSent /\ Waiting'
<1>0. ASSUME NEW i \in Conns
      PROVE  Sizes(i) /\ Sizes(i)' /\ AtServer(i) /\ Room(i)
  BY SizesAre DEF Waiting
<1>1. nSent \in Nat
  BY Bounds
<1>2. ASSUME NEW i \in Conns, Srv!Read(i) PROVE nSent' \in 0 .. MaxSent /\ Waiting'
  <2>1. /\ Others(i) /\ UNCHANGED <<host, nSent>>
        /\ serving = NoConn /\ serving' = i /\ host # "off"
        /\ sock'[i].rep = sock[i].rep /\ Len(sock'[i].req) < Len(sock[i].req)
    BY <1>2, ReadIs
  <2>2. AtServer(i)'
    BY <1>0, <2>1 DEF AtServer
  <2>3. Asking(i)' < Asking(i) /\ Telling(i)' = Telling(i) /\ Serves(i)' = 1 /\ Serves(i) = 0
    BY <2>1, Bounds DEF Asking, Telling, Serves
  <2>4. Sizes(i) /\ Sizes(i)' /\ Room(i)
    BY <1>0
  <2>5. Room(i)'
    BY <1>1, <2>1, <2>3, <2>4, RoomFor DEF Sizes
  <2> QED
    BY <1>1, <2>1, <2>2, <2>5, WaitingBut, Bounds
<1>3. ASSUME NEW i \in Conns, Srv!Reap(i) PROVE nSent' \in 0 .. MaxSent /\ Waiting'
  <2>1. /\ Others(i) /\ UNCHANGED <<host, serving, nSent>>
        /\ sock'[i].srv = "none" /\ sock'[i].req = <<>> /\ sock'[i].buf = <<>>
        /\ sock'[i].rep = <<>>
    BY <1>3, ReapIs
  <2>2. AtServer(i)'
    BY <2>1 DEF AtServer
  <2>3. Asking(i)' = 0 /\ Telling(i)' = 0
    BY <2>1 DEF Asking, Telling
  <2>4. Sizes(i)'
    BY <1>0
  <2>5. Room(i)'
    BY <1>1, <2>1, <2>3, <2>4, Bounds DEF Room, Sizes
  <2> QED
    BY <1>1, <2>1, <2>2, <2>5, WaitingBut
<1>4. CASE Turns
  <2>1. /\ Others(serving) /\ UNCHANGED <<serving, nSent>>
        /\ serving \in Conns /\ host' # "off"
        /\ sock'[serving].srv = sock[serving].srv
        /\ sock'[serving].req = sock[serving].req
        /\ sock'[serving].rep = sock[serving].rep
    BY <1>4, TurnIs
  <2> DEFINE i == serving
  <2>2. Sizes(i) /\ Sizes(i)' /\ AtServer(i) /\ Room(i)
    BY <1>0, <2>1
  <2>3. AtServer(i)'
    BY <2>1, <2>2 DEF AtServer
  <2>4. Asking(i)' = Asking(i) /\ Telling(i)' = Telling(i) /\ Serves(i)' = Serves(i)
    BY <2>1 DEF Asking, Telling, Serves
  <2>5. Asking(i)' + Telling(i)' + Serves(i)' <=
               Asking(i) + Telling(i) + Serves(i) + (nSent' - nSent)
    BY <1>1, <2>1, <2>2, <2>4 DEF Sizes
  <2>6. Room(i)'
    BY <1>1, <2>1, <2>2, <2>5, RoomFor
  <2> QED
    BY <1>1, <2>1, <2>3, <2>6, WaitingBut
<1>5. CASE Srv!Reply
  <2>1. PICK i \in Conns : i = serving
    BY <1>5, ReplyIs
  <2>2. /\ Others(i) /\ UNCHANGED <<host, nSent>>
        /\ serving' = NoConn /\ host # "off"
        /\ sock'[i].buf = <<>> /\ sock'[i].srv = sock[i].srv
        /\ sock'[i].req = sock[i].req
        /\ sock'[i].rep = IF sock[i].peer THEN Append(sock[i].rep, status)
                          ELSE sock[i].rep
    BY <1>5, <2>1, ReplyIs
  <2>3. Sizes(i) /\ Sizes(i)' /\ AtServer(i) /\ Room(i)
    BY <1>0
  <2>4. status \in 1 .. 3
    BY DEF SrvP!MachineType, SrvP!POPS_idle, SrvP!POPS_active, SrvP!POPS_shutdown
  <2>5. sock[i].rep \in Seq(1 .. 3)
    BY <2>3 DEF AtServer
  <2>6. sock'[i].rep \in Seq(1 .. 3) /\ Telling(i)' \in {Telling(i), Telling(i) + 1}
    BY <2>2, <2>4, <2>5 DEF Telling
  <2>7. Asking(i)' = Asking(i) /\ Serves(i) = 1 /\ Serves(i)' = 0
    BY <2>1, <2>2, Bounds DEF Asking, Serves
  <2>8. AtServer(i)'
    BY <2>2, <2>3, <2>6 DEF AtServer
  <2>9. Asking(i)' + Telling(i)' + Serves(i)' <=
               Asking(i) + Telling(i) + Serves(i) + (nSent' - nSent)
    BY <1>1, <2>2, <2>3, <2>6, <2>7 DEF Sizes
  <2>10. Room(i)'
    BY <1>1, <2>2, <2>3, <2>9, RoomFor
  <2>11. \A j \in Conns \ {i} : serving' = j <=> serving = j
    BY <2>1, <2>2, Bounds
  <2> QED
    BY <1>1, <2>2, <2>8, <2>10, <2>11, WaitingBut
<1> QED
  BY <1>2, <1>3, <1>4, <1>5

\* The steps of the instrument.
LEMMA WaitingMachine ==
  ASSUME SrvP!Talk, SrvP!Talk', nSent \in 0 .. MaxSent, Waiting,
         Srv!Machine \/ Srv!ShutdownConnected
  PROVE  nSent' \in 0 .. MaxSent /\ Waiting'
<1>0. nSent \in Nat
  BY Bounds
<1>1. ASSUME UNCHANGED <<sock, serving, nSent>>, host' = "off" => host = "off"
      PROVE  nSent' \in 0 .. MaxSent /\ Waiting'
  <2>1. ASSUME NEW j \in Conns PROVE AtServer(j)' /\ Room(j)'
    BY <1>0, <1>1, WaitingKept
  <2> QED
    BY <1>1, <2>1 DEF Waiting
<1>2. ASSUME NEW end \in {"fin", "gone"}, Srv!Stopped(end), UNCHANGED nSent
      PROVE  nSent' \in 0 .. MaxSent /\ Waiting'
  <2> SUFFICES ASSUME NEW j \in Conns PROVE AtServer(j)' /\ Room(j)'
    BY <1>2 DEF Waiting
  <2>1. /\ serving' = NoConn /\ sock'[j].srv # "open"
        /\ sock'[j].req = <<>> /\ sock'[j].buf = <<>>
        /\ sock'[j].rep = IF sock[j].peer THEN sock[j].rep ELSE <<>>
    BY <1>2, StoppedIs
  <2>2. Sizes(j) /\ Sizes(j)' /\ AtServer(j) /\ Room(j)
    BY SizesAre DEF Waiting
  <2>3. sock[j].rep \in Seq(1 .. 3)
    BY <2>2 DEF AtServer
  <2>4. sock'[j].rep \in Seq(1 .. 3) /\ Telling(j)' \in {0, Telling(j)}
    BY <2>1, <2>3 DEF Telling
  <2>5. Asking(j)' = 0 /\ Serves(j)' = 0
    BY <2>1, Bounds DEF Asking, Serves
  <2>6. AtServer(j)'
    BY <2>1, <2>4 DEF AtServer
  <2>7. Asking(j)' + Telling(j)' + Serves(j)' <=
          Asking(j) + Telling(j) + Serves(j) + (nSent' - nSent)
    BY <1>0, <1>2, <2>2, <2>4, <2>5 DEF Sizes
  <2>8. Room(j)'
    BY <1>0, <1>2, <2>2, <2>7, RoomFor
  <2> QED
    BY <2>6, <2>8
<1>3. CASE Srv!EightArrives \/ Srv!ShutdownConnected
  BY <1>1, <1>3 DEF Srv!EightArrives, Srv!ShutdownConnected, Srv!pastVars
<1>4. CASE Srv!HostHalts
  BY <1>2, <1>4 DEF Srv!HostHalts, Srv!pastVars
<1>5. CASE Srv!PowerOff
  BY <1>2, <1>5 DEF Srv!PowerOff
<1>6. CASE Srv!PowerOn
  BY <1>1, <1>6 DEF Srv!PowerOn, Srv!pastVars
<1> QED
  BY <1>3, <1>4, <1>5, <1>6 DEF Srv!Machine

\* What waits, after any step of the server and its clients.
LEMMA WaitingNext ==
  ASSUME SrvP!Talk, SrvP!Talk', SrvP!MachineType, nSent \in 0 .. MaxSent, Waiting,
         [SrvP!Next]_srvVars
  PROVE  nSent' \in 0 .. MaxSent /\ Waiting'
<1>1. CASE UNCHANGED srvVars
  BY <1>1 DEF srvVars, Waiting, AtServer, Room, Asking, Telling, Serves
<1>2. ASSUME NEW i \in Conns, Srv!Client(i) PROVE nSent' \in 0 .. MaxSent /\ Waiting'
  BY <1>2, WaitingClient DEF Srv!Client
<1>3. ASSUME NEW i \in Conns, Srv!Read(i) \/ Srv!Reap(i)
      PROVE  nSent' \in 0 .. MaxSent /\ Waiting'
  BY <1>3, WaitingServer
<1>4. CASE Srv!ProtocolInput
  BY <1>4, OnlyTurns, WaitingServer
<1>5. CASE Srv!ShutdownConnected \/ Srv!Machine
  BY <1>5, WaitingMachine
<1>6. CASE Srv!Next
  BY <1>2, <1>3, <1>4, <1>5, <1>6 DEF Srv!Next
<1> QED
  BY <1>1, <1>6, SameServer

-----------------------------------------------------------------------------
(* The invariant is inductive: the link.                                   *)

\* The steps of the server and the instrument.
ServerSide ==
  \/ \E i \in Conns : Srv!Read(i) \/ Srv!Reap(i)
  \/ Turns \/ Srv!Reply \/ Srv!ShutdownConnected \/ Srv!Machine

\* What they do to the connection that POPS_client holds.
LEMMA HeldByClient ==
  ASSUME SrvP!Talk, NEW i \in Conns, sock[i].peer, ServerSide
  PROVE  /\ sock'[i].peer
         /\ /\ sock[i].req = <<>> /\ sock[i].buf = <<>> /\ sock[i].rep = <<>>
            /\ serving # i
            => /\ sock'[i].req = <<>> /\ sock'[i].buf = <<>> /\ sock'[i].rep = <<>>
               /\ serving' # i
<1>0. i # NoConn
  BY Bounds
<1>1. ASSUME NEW j \in Conns, Srv!Read(j) PROVE sock'[i].peer /\
         (sock[i].req = <<>> => sock'[i] = sock[i] /\ serving' # i)
  BY <1>1, ReadIs DEF Others
<1>2. ASSUME NEW j \in Conns, Srv!Reap(j) PROVE UNCHANGED <<sock[i], serving>>
  BY <1>2, ReapIs DEF Others
<1>3. CASE Turns
  <2>1. /\ Others(serving) /\ serving \in Conns /\ serving' = serving
        /\ sock'[serving].peer = sock[serving].peer
    BY <1>3, TurnIs
  <2> QED
    BY <2>1 DEF Others
<1>4. CASE Srv!Reply
  <2>1. /\ Others(serving) /\ serving \in Conns /\ serving' = NoConn
        /\ sock'[serving].peer = sock[serving].peer
    BY <1>4, ReplyIs
  <2> QED
    BY <1>0, <2>1 DEF Others
<1>5. CASE Srv!ShutdownConnected \/ Srv!EightArrives \/ Srv!PowerOn
  BY <1>5 DEF Srv!ShutdownConnected, Srv!EightArrives, Srv!PowerOn
<1>6. CASE Srv!HostHalts \/ Srv!PowerOff
  <2>1. PICK end \in {"fin", "gone"} : Srv!Stopped(end)
    BY <1>6 DEF Srv!HostHalts, Srv!PowerOff
  <2>2. /\ serving' = NoConn /\ (sock'[i].peer <=> sock[i].peer)
        /\ sock'[i].req = <<>> /\ sock'[i].buf = <<>>
        /\ sock'[i].rep = IF sock[i].peer THEN sock[i].rep ELSE <<>>
    BY <2>1, StoppedIs
  <2> QED
    BY <1>0, <2>2
<1> QED
  BY <1>1, <1>2, <1>3, <1>4, <1>5, <1>6 DEF ServerSide, Srv!Machine

\* The server's steps in the driver's system.
LEMMA ServedSteps ==
  ASSUME SrvP!Talk,
         ServerRuns \/ Elsewhere \/ \E i \in Conns : ServerReads(i)
  PROVE  ServerSide /\ UNCHANGED <<Stale, clientVars, hasty>>
BY OnlyTurns DEF ServerRuns, Elsewhere, ServerReads, Served, ServerSide

\* A command forwarded on the link leaves the link as it is.
LEMMA LinkForward ==
  ASSUME SrvP!Talk, Linked, NEW c, Forward(c), UNCHANGED <<link, cur, quit>>
  PROVE  Linked'
<1>1. CASE link = "up"
  <2>1. cur \in Conns /\ Srv!Send(cur, c)
    BY <1>1 DEF Linked, Forward
  <2>2. sock'[cur].peer
    BY <2>1, SendIs
  <2> QED
    BY <1>1, <2>2 DEF Linked
<1>2. CASE link # "up"
  BY <1>2 DEF Forward, Linked, srvVars
<1> QED
  BY <1>1, <1>2

\* The link, after any step.
LEMMA LinkedNext ==
  ASSUME SrvP!Talk, Linked, [Next]_vars
  PROVE  Linked'
<1>1. CASE UNCHANGED vars \/ Sample
  BY <1>1 DEF Sample, vars, srvVars, clientVars, Linked
<1>2. CASE Connect
  <2>1. PICK i \in Conns : Srv!Accept(i) /\ cur' = i
    BY <1>2 DEF Connect
  <2>2. /\ sock'[i].peer /\ sock[i].srv = "none" /\ serving' = serving
        /\ sock'[i].req = <<>> /\ sock'[i].buf = <<>> /\ sock'[i].rep = <<>>
    BY <2>1, AcceptIs
  <2>3. serving # i /\ i # NoConn
    BY <2>2, SockType, Bounds
  <2>4. link' = "connected" /\ ~timer' /\ ~quit'
    BY <1>2 DEF Connect, Linked
  <2> QED
    BY <2>1, <2>2, <2>3, <2>4 DEF Linked
<1>3. CASE Negotiate
  <2>1. cur \in Conns /\ Srv!Send(cur, "V") /\ link' = "up" /\ ~quit' /\ cur' = cur
    BY <1>3 DEF Negotiate, Linked
  <2>2. sock'[cur].peer /\ cur # NoConn
    BY <2>1, SendIs, Bounds
  <2> QED
    BY <2>1, <2>2 DEF Linked
<1>4. ASSUME NEW c \in Orders, Order(c) PROVE Linked'
  BY <1>4, LinkForward DEF Order
<1>5. CASE AppInput
  <2>1. /\ cur \in Conns /\ link = "up" /\ UNCHANGED <<link, cur, quit>>
        /\ \E k : Srv!TakeReplies(cur, k)
    BY <1>5 DEF AppInput, Linked
  <2>2. sock'[cur].peer = sock[cur].peer
    BY <2>1, TakeRepliesIs
  <2> QED
    BY <2>1, <2>2 DEF Linked
<1>6. CASE Timeout \/ Eof
  BY <1>6 DEF Timeout, Eof, GiveUp, Linked
<1>7. CASE Quit
  BY <1>7 DEF Quit, Linked
<1>8. CASE TmSync
  <2>1. UNCHANGED <<link, cur, quit>> /\ (Forward("V") \/ UNCHANGED <<srvVars, timer>>)
    BY <1>8 DEF TmSync
  <2> QED
    BY <2>1, LinkForward DEF Linked, srvVars
<1>9. CASE ServerRuns \/ Elsewhere \/ \E i \in Conns : ServerReads(i)
  <2>1. ServerSide /\ UNCHANGED <<link, cur, timer, quit>>
    BY <1>9, ServedSteps DEF clientVars
  <2>2. CASE link = "down"
    BY <2>1, <2>2 DEF Linked
  <2>3. CASE link # "down"
    <3>1. cur \in Conns /\ sock[cur].peer
      BY <2>3 DEF Linked
    <3>2. /\ sock'[cur].peer
          /\ link = "connected" =>
               /\ sock'[cur].req = <<>> /\ sock'[cur].buf = <<>> /\ sock'[cur].rep = <<>>
               /\ serving' # cur
      BY <2>1, <3>1, HeldByClient DEF Linked
    <3> QED
      BY <2>1, <2>3, <3>1, <3>2 DEF Linked
  <2> QED
    BY <2>2, <2>3
<1> QED
  BY <1>1, <1>2, <1>3, <1>4, <1>5, <1>6, <1>7, <1>8, <1>9 DEF Next, Driver

\* The counters of the telemetry are bytes, and its status one the server can
\* have.
LEMMA CountedNext ==
  ASSUME SrvP!Talk, Linked, Waiting, Counted, [Next]_vars
  PROVE  Counted'
<1>0. /\ MaxHasty \in Nat /\ ByteMax \in Nat \ {0}
      /\ Bumped \in 0 .. ByteMax
  BY PopsAssumption, StaleAssumption DEF Bumped, Counted
<1>1. CASE UNCHANGED vars
  BY <1>1 DEF vars, clientVars, pastVars, Counted
<1>2. CASE Sample
  BY <1>0, <1>2 DEF Sample, clientVars, pastVars, Counted
<1>3. CASE Connect
  BY <1>3 DEF Connect, Counted
<1>4. CASE Negotiate
  BY <1>0, <1>4 DEF Negotiate, pastVars, Counted
<1>5. CASE AppInput
  <2>1. PICK k \in 1 .. Len(sock[cur].rep) : Srvr' = sock[cur].rep[k]
    BY <1>5 DEF AppInput, Shown
  <2>2. sock[cur].rep \in Seq(1 .. 3)
    BY <1>5 DEF AppInput, Linked, Waiting, AtServer
  <2>3. Srvr' \in 1 .. 3
    BY <2>1, <2>2, ElementOfSeq
  <2> QED
    BY <1>0, <1>5, <2>3 DEF AppInput, FreshServer, pastVars, Counted
<1>6. CASE Timeout
  BY <1>0, <1>6 DEF Timeout, SrvrLost, GiveUp, Counted
<1>7. CASE Eof
  BY <1>7 DEF Eof, SrvrLost, GiveUp, Counted
<1>8. CASE TmSync
  <2>1. UNCHANGED <<Srvr, late, hasty>>
    BY <1>8 DEF TmSync, pastVars
  <2>2. Stale' \in 0 .. ByteMax
    BY <1>0, <1>8 DEF TmSync, Counted, Aged
  <2>3. srvr_Stale' \in 0 .. ByteMax
    BY <1>0, <1>8 DEF TmSync, Counted
  <2> QED
    BY <2>1, <2>2, <2>3 DEF Counted
<1>9. CASE Quit
  BY <1>9 DEF Quit, pastVars, Counted
<1>10. ASSUME NEW c \in Orders, Order(c) PROVE Counted'
  BY <1>10 DEF Order, pastVars, Counted
<1>11. CASE ServerRuns \/ Elsewhere \/ \E i \in Conns : ServerReads(i)
  <2>1. UNCHANGED <<Srvr, srvr_Stale, Stale, hasty>>
    BY <1>11, ServedSteps DEF clientVars
  <2>2. late' \in BOOLEAN
    BY <1>11 DEF ServerRuns, Elsewhere, ServerReads, Counted
  <2> QED
    BY <2>1, <2>2 DEF Counted
<1> QED
  BY <1>1, <1>2, <1>3, <1>4, <1>5, <1>6, <1>7, <1>8, <1>9, <1>10, <1>11
     DEF Next, Driver

-----------------------------------------------------------------------------
(* The invariant is inductive: the status.                                 *)

\* A step that leaves alone what is known on the connection.
LEMMA SettlingKept ==
  ASSUME Settling, UNCHANGED <<link, cur, Srvr, status>>,
         sock'[cur].srv = sock[cur].srv, sock'[cur].req = sock[cur].req,
         sock'[cur].rep = sock[cur].rep,
         serving' # cur => serving # cur, late => late'
  PROVE  Settling'
BY DEF Settling, LastKnown

\* A command is on its way, so an answer will be.
LEMMA SettlingSent ==
  ASSUME SrvP!Talk, Settling, cur \in Conns, NEW c \in Orders \cup {"V"}, Srv!Send(cur, c),
         UNCHANGED <<link, cur, Srvr, late>>
  PROVE  Settling'
<1>1. /\ UNCHANGED <<status, serving>> /\ sock'[cur].srv = sock[cur].srv
      /\ sock'[cur].req = IF sock[cur].srv = "open" THEN Append(sock[cur].req, c)
                          ELSE sock[cur].req
      /\ sock'[cur].rep = sock[cur].rep
  BY SendIs
<1>2. CASE sock[cur].srv # "open"
  BY <1>1, <1>2, SettlingKept
<1>3. CASE sock[cur].srv = "open"
  <2> DEFINE q == sock[cur].req
  <2>1. q \in Seq(Orders \cup {"V"})
    BY SockType
  <2> HIDE DEF q
  <2>2. Append(q, c) # <<>>
    <3>1. Len(Append(q, c)) = Len(q) + 1 /\ Len(q) \in Nat
      BY <2>1
    <3> QED
      BY <3>1
  <2>3. sock'[cur].req # <<>>
    BY <1>1, <1>3, <2>2 DEF q
  <2> QED
    BY <1>1, <2>3 DEF Settling, LastKnown
<1> QED
  BY <1>2, <1>3

\* app_input() shows the last of the replies it read; the last one of all is
\* among those it left or the one it shows.
LEMMA SettlingRead ==
  ASSUME SrvP!Talk, Settling, cur \in Conns,
         NEW k \in 1 .. Len(sock[cur].rep), Srv!TakeReplies(cur, k),
         Srvr' = sock[cur].rep[k], UNCHANGED <<link, cur, late>>
  PROVE  Settling'
<1> DEFINE r == sock[cur].rep
           t == SubSeq(r, k + 1, Len(r))
<1>1. /\ UNCHANGED <<status, serving>> /\ sock'[cur].srv = sock[cur].srv
      /\ sock'[cur].rep = t
  BY TakeRepliesIs
<1>2. r \in Seq(0 .. 4) /\ k \in 1 .. Len(r)
  BY SockType
<1>3. r # <<>> /\ Srvr' = r[k]
  BY <1>2
<1> HIDE DEF r
<1>4. IF t # <<>> THEN t[Len(t)] = r[Len(r)] ELSE k = Len(r)
  <2>1. Len(r) \in Nat /\ k \in Nat /\ k <= Len(r) /\ \A j \in 1 .. Len(r) : r[j] \in 0 .. 4
    BY <1>2, ElementOfSeq
  <2>2. /\ t \in Seq(0 .. 4)
        /\ Len(t) = Len(r) - k
        /\ \A j \in 1 .. Len(r) - k : t[j] = r[k + j]
    BY <1>2, <2>1, SubSeqProperties
  <2> HIDE DEF t
  <2>3. CASE k = Len(r)
    <3>1. Len(t) = 0
      BY <2>1, <2>2, <2>3
    <3> QED
      BY <2>2, <2>3, <3>1
  <2>4. CASE k < Len(r)
    <3>1. Len(t) \in 1 .. Len(r) - k /\ k + Len(t) = Len(r)
      BY <2>1, <2>2, <2>4
    <3> QED
      BY <2>2, <3>1
  <2> QED
    BY <2>1, <2>3, <2>4
<1>5. ASSUME link' = "up", sock'[cur].srv = "open", serving' # cur, ~late'
      PROVE  LastKnown'
  <2>1. r[Len(r)] = status
    BY <1>1, <1>3, <1>5 DEF Settling, LastKnown, r
  <2> HIDE DEF t
  <2> QED
    BY <1>1, <1>3, <1>4, <2>1 DEF LastKnown
<1> QED
  BY <1>5 DEF Settling

\* What the server does on the connection or behind POPS's back.
LEMMA SettlingServed ==
  ASSUME SrvP!Talk, Linked, Waiting, SrvP!MachineType, Counted, Settling,
         ServerRuns \/ Elsewhere \/ \E i \in Conns : ServerReads(i)
  PROVE  Settling'
<1>0. UNCHANGED <<link, cur, Srvr>>
  BY ServedSteps DEF clientVars
<1> SUFFICES ASSUME link = "up" PROVE Settling'
  BY <1>0 DEF Settling
<1>1. cur \in Conns /\ sock[cur].peer /\ cur # NoConn
  BY Bounds DEF Linked
<1>2. CASE ServerRuns
  <2>1. /\ serving = cur => (late' <=> late /\ serving' = cur)
        /\ serving # cur => (late' <=> late \/ status' # status)
        /\ Turns \/ Srv!Reply
    BY <1>2, OnlyTurns DEF ServerRuns, Served
  <2>2. CASE Turns
    <3>1. /\ Others(serving) /\ serving' = serving
      BY <2>2, TurnIs
    <3>2. CASE serving = cur
      BY <1>0, <3>1, <3>2 DEF Settling
    <3>3. CASE serving # cur
      <4>1. sock'[cur] = sock[cur]
        BY <1>1, <3>1, <3>3 DEF Others
      <4> QED
        BY <1>0, <2>1, <3>1, <3>3, <4>1 DEF Settling, LastKnown
    <3> QED
      BY <3>2, <3>3
  <2>3. CASE Srv!Reply
    <3>1. /\ Others(serving) /\ status' = status /\ serving' = NoConn
          /\ sock'[serving].rep = IF sock[serving].peer
                                  THEN Append(sock[serving].rep, status)
                                  ELSE sock[serving].rep
      BY <2>3, ReplyIs
    <3>2. CASE serving = cur
      <4> DEFINE r == sock[cur].rep
      <4>1. r \in Seq(0 .. 4) /\ status \in 0 .. 4
        BY <1>1, SockType
           DEF SrvP!MachineType, SrvP!POPS_idle, SrvP!POPS_active, SrvP!POPS_shutdown
      <4>2. sock'[cur].rep = Append(r, status)
        BY <1>1, <3>1, <3>2
      <4> HIDE DEF r
      <4>3. Append(r, status) # <<>> /\ Append(r, status)[Len(Append(r, status))] = status
        BY <4>1
      <4>4. LastKnown'
        BY <1>0, <3>1, <4>2, <4>3 DEF LastKnown
      <4> QED
        BY <4>4 DEF Settling
    <3>3. CASE serving # cur
      <4>1. sock'[cur] = sock[cur]
        BY <1>1, <3>1, <3>3 DEF Others
      <4> QED
        BY <1>0, <2>1, <3>1, <3>3, <4>1, SettlingKept
    <3> QED
      BY <3>2, <3>3
  <2> QED
    BY <2>1, <2>2, <2>3
<1>3. ASSUME NEW i \in Conns, ServerReads(i) PROVE Settling'
  <2>1. Srv!Read(i) /\ late' = late
    BY <1>3 DEF ServerReads, Served
  <2>2. Others(i) /\ status' = status /\ serving = NoConn /\ serving' = i
    BY <2>1, ReadIs
  <2>3. CASE i = cur
    BY <1>0, <2>2, <2>3 DEF Settling
  <2>4. CASE i # cur
    <3>1. sock'[cur] = sock[cur]
      BY <1>1, <2>2, <2>4 DEF Others
    <3> QED
      BY <1>0, <1>1, <2>1, <2>2, <3>1, SettlingKept
  <2> QED
    BY <2>3, <2>4
<1>4. CASE Elsewhere
  <2>0. late' = late
    BY <1>4 DEF Elsewhere
  <2>1. ASSUME NEW i \in Conns, Srv!Reap(i) PROVE Settling'
    <3>1. Others(i) /\ UNCHANGED <<status, serving>> /\ ~sock[i].peer
      BY <2>1, ReapIs
    <3>2. sock'[cur] = sock[cur]
      BY <1>1, <3>1 DEF Others
    <3> QED
      BY <1>0, <2>0, <3>1, <3>2, SettlingKept
  <2>2. CASE Srv!ShutdownConnected \/ Srv!EightArrives
    BY <1>0, <2>0, <2>2, SettlingKept DEF Srv!ShutdownConnected, Srv!EightArrives
  <2>3. CASE Srv!HostHalts \/ Srv!PowerOff
    <3>1. PICK end \in {"fin", "gone"} : Srv!Stopped(end)
      BY <2>3 DEF Srv!HostHalts, Srv!PowerOff
    <3>2. sock'[cur].srv # "open"
      BY <1>1, <3>1, StoppedIs
    <3> QED
      BY <1>0, <3>2 DEF Settling
  <2>4. CASE Srv!PowerOn
    <3>1. host = "off" /\ sock' = sock
      BY <2>4 DEF Srv!PowerOn
    <3>2. sock[cur].srv # "open"
      BY <1>1, <3>1 DEF Waiting, AtServer
    <3> QED
      BY <1>0, <3>1, <3>2 DEF Settling
  <2> QED
    BY <1>4, <2>1, <2>2, <2>3, <2>4 DEF Elsewhere, Served, Srv!Machine
<1> QED
  BY <1>2, <1>3, <1>4

\* What is known of the status, after any step.
LEMMA SettlingNext ==
  ASSUME PopsInv, [Next]_vars
  PROVE  Settling'
<1>0. SrvP!Talk /\ SrvP!MachineType /\ Linked /\ Waiting /\ Counted /\ Settling
  BY DEF PopsInv, SrvP!SrvrInv
<1>1. link # "down" => cur \in Conns
  BY <1>0 DEF Linked
<1>2. CASE UNCHANGED vars \/ Sample
  BY <1>0, <1>2, SettlingKept DEF Sample, vars, srvVars, clientVars, pastVars
<1>3. CASE Connect
  BY <1>3 DEF Connect, Settling
<1>4. ASSUME NEW c \in Orders \cup {"V"}, Forward(c), UNCHANGED <<link, cur, Srvr, late>>
      PROVE  Settling'
  <2>1. CASE link = "up"
    BY <1>0, <1>1, <1>4, <2>1, SettlingSent DEF Forward
  <2>2. CASE link # "up"
    BY <1>4, <2>2 DEF Settling
  <2> QED
    BY <2>1, <2>2
<1>5. CASE Negotiate
  <2>1. /\ cur \in Conns /\ link' = "up" /\ Srv!Send(cur, "V")
        /\ sock[cur].srv = "open" /\ UNCHANGED <<cur, Srvr, late>>
    BY <1>0, <1>5 DEF Negotiate, Linked, pastVars
  <2>2. /\ UNCHANGED serving
        /\ sock'[cur].req = Append(sock[cur].req, "V") /\ sock'[cur].rep = sock[cur].rep
    BY <1>0, <2>1, SendIs
  <2>3. sock[cur].req = <<>> /\ sock[cur].rep = <<>>
    BY <1>0, <1>5 DEF Negotiate, Linked
  <2>4. Append(<<>>, "V") # <<>>
    OBVIOUS
  <2> QED
    BY <2>1, <2>2, <2>3, <2>4 DEF Settling, LastKnown
<1>6. ASSUME NEW c \in Orders, Order(c) PROVE Settling'
  BY <1>4, <1>6 DEF Order, pastVars
<1>7. CASE AppInput
  <2>1. PICK k \in 1 .. Len(sock[cur].rep) :
          Srv!TakeReplies(cur, k) /\ Srvr' = sock[cur].rep[k]
    BY <1>7 DEF AppInput, Shown
  <2>2. cur \in Conns /\ UNCHANGED <<link, cur, late>>
    BY <1>1, <1>7 DEF AppInput, pastVars
  <2> QED
    BY <1>0, <2>1, <2>2, SettlingRead
<1>8. CASE Timeout \/ Eof \/ Quit
  BY <1>8 DEF Timeout, Eof, GiveUp, Quit, Settling
<1>9. CASE TmSync
  <2>1. UNCHANGED <<link, cur, Srvr, late>> /\ (Forward("V") \/ UNCHANGED srvVars)
    BY <1>9 DEF TmSync, pastVars
  <2> QED
    BY <1>0, <1>4, <2>1, SettlingKept DEF srvVars
<1>10. CASE ServerRuns \/ Elsewhere \/ \E i \in Conns : ServerReads(i)
  BY <1>0, <1>10, SettlingServed
<1> QED
  BY <1>2, <1>3, <1>5, <1>6, <1>7, <1>8, <1>9, <1>10 DEF Next, Driver

-----------------------------------------------------------------------------
(* The theorems.                                                           *)

\* The driver starts without a link, and knows nothing.
LEMMA InitPops == Init => PopsInv
<1> SUFFICES ASSUME Init PROVE PopsInv
  OBVIOUS
<1>1. SrvP!SrvrInv
  BY SameServer, SrvP!InitInv, ServerAssumption DEF Init
<1>2. Linked
  BY Bounds DEF Init, Linked
<1>5. Counted /\ nSent \in 0 .. MaxSent
  <2>1. late \in BOOLEAN
    BY DEF Init
  <2>2. Srvr = 0 /\ srvr_Stale = 0 /\ Stale = 0 /\ hasty = 0 /\ nSent = 0
    BY DEF Init, Srv!Init
  <2> QED
    BY <2>1, <2>2, PopsAssumption, StaleAssumption DEF Counted
<1>3. Settling
  BY DEF Init, Settling
<1>4. ASSUME NEW i \in Conns PROVE AtServer(i) /\ Room(i)
  <2>1. /\ sock[i].srv = "none" /\ sock[i].req = <<>> /\ sock[i].buf = <<>>
        /\ sock[i].rep = <<>> /\ serving = NoConn /\ nSent = 0
    BY DEF Init, Srv!Init, Srv!Free
  <2>2. Asking(i) = 0 /\ Telling(i) = 0 /\ Serves(i) = 0
    BY <2>1, Bounds DEF Asking, Telling, Serves
  <2> QED
    BY <2>1, <2>2, Bounds DEF AtServer, Room
<1> QED
  BY <1>1, <1>2, <1>3, <1>4, <1>5 DEF PopsInv, Waiting

\* The invariant is inductive.
LEMMA NextPops == PopsInv /\ [Next]_vars => PopsInv'
<1> SUFFICES ASSUME PopsInv, [Next]_vars PROVE PopsInv'
  OBVIOUS
<1>0. /\ SrvP!SrvrInv /\ SrvP!Talk /\ SrvP!MachineType /\ Linked /\ Counted
      /\ nSent \in 0 .. MaxSent /\ Waiting
  BY DEF PopsInv, SrvP!SrvrInv
<1>1. [SrvP!Next]_srvVars
  BY <1>0, ServerStep
<1>2. SrvP!SrvrInv'
  <2>1. [SrvP!Next]_SrvP!vars
    BY <1>1 DEF SrvP!vars, srvVars
  <2>2. SrvP!SrvrInv /\ [SrvP!Next]_SrvP!vars => SrvP!SrvrInv'
    BY SrvP!NextInv, ServerAssumption
  <2> QED
    BY <1>0, <2>1, <2>2
<1>3. SrvP!Talk'
  BY <1>2 DEF SrvP!SrvrInv
<1>4. nSent' \in 0 .. MaxSent /\ Waiting'
  BY <1>0, <1>1, <1>3, WaitingNext
<1>5. Linked' /\ Counted'
  BY <1>0, LinkedNext, CountedNext
<1>6. Settling'
  BY SettlingNext
<1> QED
  BY <1>2, <1>4, <1>5, <1>6 DEF PopsInv

\* In every reachable state POPS_client holds a connection of its own, which
\* the server answers in order and with its status.
LEMMA AlwaysPops == Spec => []PopsInv
BY InitPops, NextPops, PTL DEF Spec

\* Whatever POPS_client does, the server sees clients that keep its protocol:
\* what is proved of the server for any clients holds with this one.
THEOREM DrivesTheServer == Spec => Srv!Spec
<1>1. Init => Srv!Init
  BY DEF Init
<1>2. PopsInv /\ [Next]_vars => [Srv!Next]_Srv!vars
  <2>1. SUFFICES ASSUME Linked, [Next]_vars PROVE [Srv!Next]_Srv!vars
    BY DEF PopsInv
  <2>2. [SrvP!Next]_srvVars
    BY <2>1, ServerStep
  <2> QED
    BY <2>2, SameServer DEF srvVars, Srv!vars
<1> QED
  BY <1>1, <1>2, AlwaysPops, PTL DEF Spec, Srv!Spec

\* So with this driver, too, the computer is halted under POPS software that
\* runs only at a forced shutdown or a second shutdown.
THEOREM DriverHaltsDeliberately == Spec => Srv!HaltIsDeliberate
<1> DEFINE Deliberate ==
      host = "up" /\ host' = "halting" /\ prog = "run" => askedF > 0 \/ askedE > 1
<1>1. PopsInv /\ [Next]_vars => [Deliberate]_Srv!vars
  <2> SUFFICES ASSUME PopsInv, [Next]_vars PROVE Deliberate
    OBVIOUS
  <2>1. SrvP!SrvrInv /\ [SrvP!Next]_srvVars
    BY ServerStep DEF PopsInv
  <2>2. [SrvP!Next]_SrvP!vars
    BY <2>1 DEF SrvP!vars, srvVars
  <2> QED
    BY <2>1, <2>2, SrvP!HaltStep, ServerAssumption
<1> QED
  BY <1>1, AlwaysPops, PTL DEF Spec, Srv!HaltIsDeliberate

\* What was sent on a connection stays on it until the server executes it, or the
\* computer stops.
NoneWithdrawn == [][\A i \in Conns : SrvP!LineKept(i)]_vars

\* No order that the operator gave on a connection is taken back: POPS_client,
\* which never orders D, gives the connection up after a timeout, an end of file
\* or a Q, and the server still executes what was sent on it, in its order.
THEOREM OrdersOutliveTheirLink == Spec => NoneWithdrawn
<1> DEFINE Undisturbed == SrvP!Emptied /\ askedD = 0
           Kept == \A i \in Conns : SrvP!LineKept(i)
<1>1. Init => Undisturbed
  BY SameServer, SrvP!InitEmptied, ServerAssumption DEF Init, Srv!Init
<1>2. PopsInv /\ Undisturbed /\ [Next]_vars => Undisturbed' /\ Kept
  <2> SUFFICES ASSUME PopsInv, Undisturbed, [Next]_vars
               PROVE  Undisturbed' /\ Kept
    OBVIOUS
  <2>1. SrvP!SrvrInv /\ [SrvP!Next]_SrvP!vars
    BY ServerStep DEF PopsInv, SrvP!vars, srvVars
  <2>2. SrvP!Emptying
    BY <2>1, SrvP!EmptiesNext, ServerAssumption
  <2>3. askedD' = 0
    <3>1. "D" \notin Orders \cup {"V"}
      BY PopsAssumption
    <3> QED
      BY <2>1, <3>1, SrvP!NoneAsked, ServerAssumption
  <2> QED
    BY <2>2, <2>3 DEF SrvP!Emptying
<1>3. Kept => [Kept]_vars
  OBVIOUS
<1> QED
  BY <1>1, <1>2, <1>3, AlwaysPops, PTL DEF Spec, NoneWithdrawn

\* Every variable has its type; POPS_client holds a connection of its own while
\* it has a link, and the timer of forward() runs only with the server's
\* consent.
THEOREM PopsTypeCorrect == Spec => []TypeOK
<1>1. SrvP!SrvrInv => Srv!TypeOK
  BY DEF SrvP!SrvrInv, SrvP!Talk, SrvP!MachineType, SrvP!EndsAgree, SrvP!Sockets,
         SrvP!Socket, SrvP!POPS_idle, SrvP!POPS_active, SrvP!POPS_shutdown,
         SrvP!ErrorReply, Srv!TypeOK, Srv!POPS_idle, Srv!POPS_active,
         Srv!POPS_shutdown, Srv!ErrorReply
<1>2. Linked /\ Counted =>
        /\ link \in {"down", "connected", "up"}
        /\ cur \in Conns \cup {NoConn} /\ (cur = NoConn <=> link = "down")
        /\ link # "down" => sock[cur].peer
        /\ Srvr \in 0 .. 3 /\ srvr_Stale \in 0 .. ByteMax /\ Stale \in 0 .. ByteMax
        /\ timer => link = "up"
        /\ hasty \in 0 .. MaxHasty /\ late \in BOOLEAN
  BY Zenon DEF Linked, Counted
<1>3. PopsInv => TypeOK
  BY <1>1, <1>2, Zenon DEF PopsInv, TypeOK
<1> QED
  BY <1>3, AlwaysPops, PTL

\* When nothing is on its way on its connection, the telemetry shows the status
\* the server has (app_input(), send_status()), however many orders, polls,
\* replies read together, timeouts and abandoned connections there were.
THEOREM StatusIsSettled == Spec => []StatusSettled
<1>1. PopsInv => StatusSettled
  BY DEF PopsInv, Settling, LastKnown, StatusSettled, NothingOnItsWay
<1> QED
  BY <1>1, AlwaysPops, PTL

-----------------------------------------------------------------------------
(* A server that is gone is noticed: what POPS_client relies on.           *)

\* The answer for which forward()'s timeout waits is on its way, or the server
\* that owes it is gone.
AnswerDue ==
  timer => \/ sock[cur].srv # "open" \/ serving = cur
           \/ sock[cur].req # <<>> \/ sock[cur].rep # <<>>

\* When tm_sync() polls no more, since srvr_Stale is counting, a timeout runs.
PolledOrTimed == link = "up" /\ srvr_Stale # 0 => timer

\* The telemetry shows a status only while the server consents, and while it
\* shows none a timeout runs.
ShownWhenUp ==
  /\ Srvr # 0 => link = "up" \/ quit
  /\ link = "up" /\ Srvr = 0 => timer

Noticing == AnswerDue /\ PolledOrTimed /\ ShownWhenUp

\* What the server does leaves the answer on its way.
LEMMA DueServed ==
  ASSUME PopsInv, AnswerDue,
         ServerRuns \/ Elsewhere \/ \E i \in Conns : ServerReads(i)
  PROVE  AnswerDue'
<1>0. /\ SrvP!Talk /\ Linked /\ ServerSide
      /\ UNCHANGED <<link, cur, Srvr, srvr_Stale, timer, quit>>
  BY ServedSteps DEF PopsInv, SrvP!SrvrInv, clientVars
<1> SUFFICES ASSUME timer PROVE AnswerDue'
  BY <1>0 DEF AnswerDue
<1>1. cur \in Conns /\ sock[cur].peer /\ cur # NoConn
  BY <1>0, Bounds DEF Linked
<1>2. \/ sock[cur].srv # "open" \/ serving = cur
      \/ sock[cur].req # <<>> \/ sock[cur].rep # <<>>
  BY DEF AnswerDue
<1>3. CASE \E i \in Conns : Srv!Read(i) \/ Srv!Reap(i)
  <2>1. PICK i \in Conns : Srv!Read(i) \/ Srv!Reap(i)
    BY <1>3
  <2>2. i # cur => sock'[cur] = sock[cur] /\ (serving = cur => serving' = cur)
    BY <1>0, <1>1, <2>1, ReadIs, ReapIs DEF Others
  <2>3. i = cur => serving' = cur
    BY <1>0, <1>1, <2>1, ReadIs, ReapIs
  <2> QED
    BY <1>0, <1>2, <2>2, <2>3 DEF AnswerDue
<1>4. CASE Turns
  <2>1. Others(serving) /\ serving' = serving
    BY <1>0, <1>4, TurnIs
  <2>2. serving # cur => sock'[cur] = sock[cur]
    BY <1>1, <2>1 DEF Others
  <2> QED
    BY <1>0, <1>2, <2>1, <2>2 DEF AnswerDue
<1>5. CASE Srv!Reply
  <2>1. /\ Others(serving)
        /\ sock'[serving].rep = IF sock[serving].peer
                                THEN Append(sock[serving].rep, status)
                                ELSE sock[serving].rep
    BY <1>0, <1>5, ReplyIs
  <2>2. CASE serving = cur
    <3> DEFINE r == sock[cur].rep
    <3>1. r \in Seq(0 .. 4)
      BY <1>0, <1>1, SockType
    <3>2. sock'[cur].rep = Append(r, status)
      BY <1>1, <2>1, <2>2
    <3> HIDE DEF r
    <3>3. Append(r, status) # <<>>
      <4>1. Len(Append(r, status)) = Len(r) + 1 /\ Len(r) \in Nat
        BY <3>1
      <4> QED
        BY <4>1
    <3> QED
      BY <1>0, <3>2, <3>3 DEF AnswerDue
  <2>3. CASE serving # cur
    <3>1. sock'[cur] = sock[cur]
      BY <1>1, <2>1, <2>3 DEF Others
    <3> QED
      BY <1>0, <1>2, <2>3, <3>1 DEF AnswerDue
  <2> QED
    BY <2>2, <2>3
<1>6. CASE Srv!ShutdownConnected \/ Srv!EightArrives \/ Srv!PowerOn
  BY <1>0, <1>2, <1>6
     DEF Srv!ShutdownConnected, Srv!EightArrives, Srv!PowerOn, AnswerDue
<1>7. CASE Srv!HostHalts \/ Srv!PowerOff
  <2>1. PICK end \in {"fin", "gone"} : Srv!Stopped(end)
    BY <1>7 DEF Srv!HostHalts, Srv!PowerOff
  <2>2. sock'[cur].srv # "open"
    BY <1>0, <1>1, <2>1, StoppedIs
  <2> QED
    BY <1>0, <2>2 DEF AnswerDue
<1> QED
  BY <1>0, <1>3, <1>4, <1>5, <1>6, <1>7 DEF ServerSide, Srv!Machine

\* A command on its way will be answered, or the server is gone.
LEMMA DueSent ==
  ASSUME SrvP!Talk, cur \in Conns, NEW c \in Orders \cup {"V"}, Srv!Send(cur, c),
         cur' = cur
  PROVE  AnswerDue'
<1> DEFINE q == sock[cur].req
<1>1. /\ sock'[cur].srv = sock[cur].srv
      /\ sock'[cur].req = IF sock[cur].srv = "open" THEN Append(q, c) ELSE q
  BY SendIs
<1>2. q \in Seq(Orders \cup {"V"})
  BY SockType
<1> HIDE DEF q
<1>3. Append(q, c) # <<>>
  <2>1. Len(Append(q, c)) = Len(q) + 1 /\ Len(q) \in Nat
    BY <1>2
  <2> QED
    BY <2>1
<1> QED
  BY <1>1, <1>3 DEF AnswerDue

\* The three, after any step.
LEMMA NoticingNext == PopsInv /\ Noticing /\ [Next]_vars => Noticing'
<1> SUFFICES ASSUME PopsInv, Noticing, [Next]_vars
             PROVE  Noticing'
  OBVIOUS
<1> USE DEF Noticing, PolledOrTimed, ShownWhenUp
<1>0. /\ SrvP!Talk /\ Linked
      /\ srvr_Stale \in 0 .. ByteMax /\ ByteMax \in Nat \ {0}
  BY StaleAssumption DEF PopsInv, SrvP!SrvrInv, Counted
<1>1. CASE UNCHANGED vars \/ Sample
  BY <1>1 DEF Sample, vars, srvVars, clientVars, AnswerDue
<1>2. CASE Connect
  BY <1>0, <1>2 DEF Connect, Linked, AnswerDue
<1>3. ASSUME NEW c \in Orders \cup {"V"}, Forward(c), UNCHANGED <<link, cur>>
      PROVE  /\ AnswerDue'
             /\ link = "up" => timer'
  BY <1>0, <1>3, DueSent DEF Forward, Linked, AnswerDue, srvVars
<1>4. CASE Negotiate
  <2>1. /\ cur \in Conns /\ link' = "up" /\ Srv!Send(cur, "V") /\ timer'
        /\ UNCHANGED <<cur, Srvr, quit>>
    BY <1>0, <1>4 DEF Negotiate, Linked
  <2> QED
    BY <1>0, <2>1, DueSent
<1>5. ASSUME NEW c \in Orders, Order(c) PROVE Noticing'
  <2>1. Forward(c) /\ UNCHANGED <<link, cur, Srvr, srvr_Stale, quit>>
    BY <1>5 DEF Order
  <2> QED
    BY <1>3, <2>1
<1>6. CASE AppInput
  <2>1. PICK k \in 1 .. Len(sock[cur].rep) : Srvr' = sock[cur].rep[k]
    BY <1>6 DEF AppInput, Shown
  <2>2. sock[cur].rep \in Seq(1 .. 3)
    BY <1>0, <1>6 DEF AppInput, Linked, PopsInv, Waiting, AtServer
  <2>3. Srvr' # 0
    BY <2>1, <2>2, ElementOfSeq
  <2> QED
    BY <1>6, <2>3 DEF AppInput, FreshServer, AnswerDue
<1>7. CASE Timeout \/ Eof
  BY <1>7 DEF Timeout, Eof, GiveUp, SrvrLost, AnswerDue
<1>8. CASE TmSync
  <2>1. UNCHANGED <<link, cur, Srvr, quit>>
    BY <1>8 DEF TmSync
  <2>2. CASE Polls
    BY <1>3, <1>8, <2>1, <2>2 DEF TmSync
  <2>3. CASE ~Polls
    <3>1. UNCHANGED <<srvVars, timer>>
      BY <1>8, <2>3 DEF TmSync
    <3>2. link = "up" /\ srvr_Stale' # 0 => srvr_Stale # 0
      BY <1>8, <2>3 DEF TmSync, Polls
    <3> QED
      BY <2>1, <3>1, <3>2 DEF AnswerDue, srvVars
  <2> QED
    BY <2>2, <2>3
<1>9. CASE Quit
  BY <1>9 DEF Quit, AnswerDue
<1>10. CASE ServerRuns \/ Elsewhere \/ \E i \in Conns : ServerReads(i)
  BY <1>10, ServedSteps, DueServed, <1>0 DEF clientVars
<1> QED
  BY <1>1, <1>2, <1>4, <1>5, <1>6, <1>7, <1>8, <1>9, <1>10 DEF Next, Driver

LEMMA AlwaysNoticing == Spec => []Noticing
<1>1. Init => Noticing
  BY DEF Init, Noticing, AnswerDue, PolledOrTimed, ShownWhenUp
<1> QED
  BY <1>1, NoticingNext, AlwaysPops, PTL DEF Spec

\* The timeout of forward() waits only for an answer that is on its way, or that
\* a server owes which is gone: nothing that was answered times out.
THEOREM TimeoutsAreOwed == Spec => []AnswerDue
<1>1. Noticing => AnswerDue
  BY DEF Noticing
<1> QED
  BY <1>1, AlwaysNoticing, PTL

\* Whenever tm_sync() refrains from a poll since one is not answered, a timeout
\* runs that gives the connection up, also after srvr_Stale has wrapped: a server
\* that is gone is either polled or timed.
THEOREM SilenceIsTimed == Spec => []PolledOrTimed
<1>1. Noticing => PolledOrTimed
  BY DEF Noticing
<1> QED
  BY <1>1, AlwaysNoticing, PTL

\* Whichever way the connection was lost, the telemetry forgets the status; and
\* on one that is there it waits for a status no longer than the timeout.
THEOREM ShownByConsent == Spec => []ShownWhenUp
<1>1. Noticing => ShownWhenUp
  BY DEF Noticing
<1> QED
  BY <1>1, AlwaysNoticing, PTL

-----------------------------------------------------------------------------
(* The refinement of PopsService: the orders on their way.                 *)

\* How often order c is on its way on each connection, and on all of them.
InLine(s, c) == [i \in Conns |-> Times(c, SrvP!Line(s, i))]
Way(s) == [c \in Orders |-> SumFunction(InLine(s, c))]

\* Lines are sequences of commands.
LEMMA InLineType ==
  ASSUME NEW s \in SrvP!Sockets, NEW c
  PROVE  /\ InLine(s, c) \in [Conns -> Nat] /\ InLine(s, c) \in [Conns -> Int]
         /\ \A i \in Conns : SrvP!Line(s, i) \in Seq(Orders \cup {"V"})
<1>1. ASSUME NEW i \in Conns
      PROVE  SrvP!Line(s, i) \in Seq(Orders \cup {"V"}) /\ Times(c, SrvP!Line(s, i)) \in Nat
  <2>1. SrvP!Line(s, i) \in Seq(Orders \cup {"V"})
    BY SrvP!LineType, ServerAssumption
  <2> QED
    BY <2>1, TimesType
<1>2. InLine(s, c) \in [Conns -> Nat]
  BY <1>1 DEF InLine
<1> QED
  BY <1>1, <1>2

\* Orders are counted in naturals.
LEMMA WayType ==
  ASSUME NEW s \in SrvP!Sockets
  PROVE  Way(s) \in [Orders -> Nat]
<1>1. \A c \in Orders : SumFunction(InLine(s, c)) \in Nat
  BY InLineType, SumNat, PopsAssumption
<1> QED
  BY <1>1 DEF Way

\* The lines are what they were.
LEMMA WaySame ==
  ASSUME NEW s, NEW t, SrvP!Same(s, t)
  PROVE  Way(t) = Way(s)
<1>1. \A c : InLine(t, c) = InLine(s, c)
  BY DEF InLine, SrvP!Same
<1> QED
  BY <1>1 DEF Way

\* Nothing is on its way.
LEMMA WayNone ==
  ASSUME NEW s \in SrvP!Sockets, \A i \in Conns : SrvP!Line(s, i) = <<>>
  PROVE  Way(s) = [c \in Orders |-> 0]
<1>1. ASSUME NEW c \in Orders PROVE SumFunction(InLine(s, c)) = 0
  <2>1. ASSUME NEW i \in Conns PROVE InLine(s, c)[i] = 0
    <3>1. SrvP!Line(s, i) \in Seq(Orders \cup {"V"}) /\ SrvP!Line(s, i) = <<>>
      BY InLineType
    <3>2. Times(c, SrvP!Line(s, i)) = 0
      BY <3>1, TimesType
    <3> QED
      BY <3>2 DEF InLine
  <2> QED
    BY <2>1, InLineType, SumNat, PopsAssumption
<1> QED
  BY <1>1 DEF Way

\* Only the line of connection i differs, by d in the number of orders c.
Differs(s, t, i, c, d) ==
  /\ \A j \in Conns \ {i} : SrvP!Line(t, j) = SrvP!Line(s, j)
  /\ Times(c, SrvP!Line(t, i)) = Times(c, SrvP!Line(s, i)) + d

\* The sum differs by as much.
LEMMA WayChanges ==
  ASSUME NEW s \in SrvP!Sockets, NEW t \in SrvP!Sockets, NEW i \in Conns,
         NEW c \in Orders, NEW d \in Int, Differs(s, t, i, c, d)
  PROVE  SumFunction(InLine(t, c)) = SumFunction(InLine(s, c)) + d
<1> DEFINE f == InLine(s, c)
           h == InLine(t, c)
<1>1. f \in [Conns -> Int] /\ h \in [Conns -> Int] /\ f \in [Conns -> Nat]
  BY InLineType
<1>2. \A j \in Conns \ {i} : h[j] = f[j]
  BY DEF InLine, Differs
<1>3. f[i] = Times(c, SrvP!Line(s, i)) /\ h[i] = f[i] + d
  BY DEF InLine, Differs
<1> HIDE DEF f, h
<1>4. SumFunction(h) = SumFunction(f) + (h[i] - f[i])
  BY <1>1, <1>2, SumChanges, PopsAssumption
<1>5. h[i] - f[i] = d
  BY <1>1, <1>3
<1> QED
  BY <1>4, <1>5 DEF f, h

\* A command is sent.
LEMMA WayPut ==
  ASSUME NEW s \in SrvP!Sockets, NEW t \in SrvP!Sockets, NEW i \in Conns,
         NEW x \in Orders \cup {"V"}, SrvP!Puts(s, t, i, x)
  PROVE  Way(t) = IF x \in Orders THEN [Way(s) EXCEPT ![x] = @ + 1] ELSE Way(s)
<1>1. ASSUME NEW c \in Orders
      PROVE  Way(t)[c] = Way(s)[c] + (IF x = c THEN 1 ELSE 0)
  <2> DEFINE u == SrvP!Line(s, i)
  <2>1. u \in Seq(Orders \cup {"V"})
    BY InLineType
  <2> HIDE DEF u
  <2>2. Times(c, Append(u, x)) = Times(c, u) + (IF x = c THEN 1 ELSE 0)
    BY <2>1, TimesPut
  <2> DEFINE d == IF x = c THEN 1 ELSE 0
  <2>3. d \in Int
    OBVIOUS
  <2> HIDE DEF d
  <2>4. Times(c, SrvP!Line(t, i)) = Times(c, SrvP!Line(s, i)) + d
    BY <2>2 DEF SrvP!Puts, u, d
  <2>5. SumFunction(InLine(t, c)) = SumFunction(InLine(s, c)) + d
    <3>1. Differs(s, t, i, c, d)
      BY <2>4 DEF SrvP!Puts, Differs
    <3> QED
      BY <2>3, <3>1, WayChanges
  <2> QED
    BY <2>5 DEF Way, d
<1>2. Way(s) \in [Orders -> Nat] /\ Way(t) \in [Orders -> Nat]
  BY WayType
<1> QED
  BY <1>1, <1>2

\* A command is read, and was on its way.
LEMMA WayTake ==
  ASSUME NEW s \in SrvP!Sockets, NEW t \in SrvP!Sockets, NEW i \in Conns,
         NEW x, SrvP!Takes(s, t, i, x)
  PROVE  /\ Way(t) = IF x \in Orders THEN [Way(s) EXCEPT ![x] = @ - 1] ELSE Way(s)
         /\ x \in Orders => Way(s)[x] > 0
<1>1. ASSUME NEW c \in Orders
      PROVE  Way(t)[c] = Way(s)[c] - (IF x = c THEN 1 ELSE 0)
  <2> DEFINE u == SrvP!Line(s, i)
             d == IF x = c THEN -1 ELSE 0
  <2>1. u \in Seq(Orders \cup {"V"}) /\ u # <<>> /\ Head(u) = x
    BY InLineType DEF SrvP!Takes
  <2> HIDE DEF u
  <2>2. Times(c, Tail(u)) = Times(c, u) - (IF Head(u) = c THEN 1 ELSE 0)
    BY <2>1, TimesTake
  <2>3. d \in Int /\ Times(c, u) \in Nat
    BY <2>1, TimesType
  <2>4. Times(c, Tail(u)) = Times(c, u) + d
    BY <2>1, <2>2, <2>3
  <2>5. Way(s)[c] \in Nat
    BY WayType
  <2> HIDE DEF d
  <2>6. Times(c, SrvP!Line(t, i)) = Times(c, SrvP!Line(s, i)) + d
    BY <2>4 DEF SrvP!Takes, u
  <2>7. SumFunction(InLine(t, c)) = SumFunction(InLine(s, c)) + d
    <3>1. Differs(s, t, i, c, d)
      BY <2>6 DEF SrvP!Takes, Differs
    <3> QED
      BY <2>3, <3>1, WayChanges
  <2>8. Way(t)[c] = Way(s)[c] + d
    BY <2>7 DEF Way
  <2> QED
    BY <2>5, <2>8 DEF d
<1>2. Way(s) \in [Orders -> Nat] /\ Way(t) \in [Orders -> Nat]
  BY WayType
<1>3. x \in Orders => Way(s)[x] > 0
  <2> SUFFICES ASSUME x \in Orders PROVE Way(s)[x] > 0
    OBVIOUS
  <2>1. Way(t)[x] = Way(s)[x] - 1 /\ Way(t)[x] \in Nat /\ Way(s)[x] \in Nat
    BY <1>1, <1>2
  <2> QED
    BY <2>1
<1> QED
  BY <1>1, <1>2, <1>3

-----------------------------------------------------------------------------
(* The refinement of PopsService: the steps.                               *)

\* The service as a record of its parts.
News == IF cur = NoConn THEN <<>> ELSE sock[cur].rep
Record(h, p, s, w, n, k, v, q) ==
  [host |-> h, prog |-> p, status |-> s, sent |-> w, news |-> n,
   contact |-> k, Srvr |-> v, quit |-> q]

\* With the driver's consent.
Up == link = "up"

\* Its parts.
LEMMA PartsAre ==
  ASSUME NEW h, NEW p, NEW s, NEW w, NEW n, NEW k, NEW v, NEW q
  PROVE  LET svc == Record(h, p, s, w, n, k, v, q)
         IN  /\ svc.host = h /\ svc.prog = p /\ svc.status = s /\ svc.sent = w
             /\ svc.news = n /\ svc.contact = k /\ svc.Srvr = v /\ svc.quit = q
BY DEF Record

\* Another host.
LEMMA PutHost ==
  ASSUME NEW h, NEW p, NEW s, NEW w, NEW n, NEW k, NEW v, NEW q, NEW x
  PROVE  [Record(h, p, s, w, n, k, v, q) EXCEPT !.host = x] =
           Record(x, p, s, w, n, k, v, q)
BY DEF Record

\* Another program.
LEMMA PutProg ==
  ASSUME NEW h, NEW p, NEW s, NEW w, NEW n, NEW k, NEW v, NEW q, NEW x
  PROVE  [Record(h, p, s, w, n, k, v, q) EXCEPT !.prog = x] =
           Record(h, x, s, w, n, k, v, q)
BY DEF Record

\* Another status.
LEMMA PutStatus ==
  ASSUME NEW h, NEW p, NEW s, NEW w, NEW n, NEW k, NEW v, NEW q, NEW x
  PROVE  [Record(h, p, s, w, n, k, v, q) EXCEPT !.status = x] =
           Record(h, p, x, w, n, k, v, q)
BY DEF Record

\* Another count of the orders.
LEMMA PutSent ==
  ASSUME NEW h, NEW p, NEW s, NEW w, NEW n, NEW k, NEW v, NEW q, NEW x
  PROVE  [Record(h, p, s, w, n, k, v, q) EXCEPT !.sent = x] =
           Record(h, p, s, x, n, k, v, q)
BY DEF Record

\* Another list of statuses.
LEMMA PutNews ==
  ASSUME NEW h, NEW p, NEW s, NEW w, NEW n, NEW k, NEW v, NEW q, NEW x
  PROVE  [Record(h, p, s, w, n, k, v, q) EXCEPT !.news = x] =
           Record(h, p, s, w, x, k, v, q)
BY DEF Record

\* Another contact.
LEMMA PutContact ==
  ASSUME NEW h, NEW p, NEW s, NEW w, NEW n, NEW k, NEW v, NEW q, NEW x
  PROVE  [Record(h, p, s, w, n, k, v, q) EXCEPT !.contact = x] =
           Record(h, p, s, w, n, x, v, q)
BY DEF Record

\* Another status shown.
LEMMA PutSrvr ==
  ASSUME NEW h, NEW p, NEW s, NEW w, NEW n, NEW k, NEW v, NEW q, NEW x
  PROVE  [Record(h, p, s, w, n, k, v, q) EXCEPT !.Srvr = x] =
           Record(h, p, s, w, n, k, x, q)
BY DEF Record

\* Another end.
LEMMA PutQuit ==
  ASSUME NEW h, NEW p, NEW s, NEW w, NEW n, NEW k, NEW v, NEW q, NEW x
  PROVE  [Record(h, p, s, w, n, k, v, q) EXCEPT !.quit = x] =
           Record(h, p, s, w, n, k, v, x)
BY DEF Record

\* Contact is made.
Joined(svc, x) ==
  [svc EXCEPT !.contact = x]

\* The record differs in contact.
LEMMA JoinedIs ==
  ASSUME NEW h, NEW p, NEW s, NEW w, NEW n, NEW k, NEW v, NEW q,
         NEW x
  PROVE  Joined(Record(h, p, s, w, n, k, v, q), x) =
           Record(h, p, s, w, n, x, v, q)
BY PutContact DEF Joined

\* Statuses are shown, and some are left.
Displayed(svc, x, y) ==
  [svc EXCEPT !.Srvr = x, !.news = y]

\* The record differs in the status shown and the statuses left.
LEMMA DisplayedIs ==
  ASSUME NEW h, NEW p, NEW s, NEW w, NEW n, NEW k, NEW v, NEW q,
         NEW x, NEW y
  PROVE  Displayed(Record(h, p, s, w, n, k, v, q), x, y) =
           Record(h, p, s, w, y, k, x, q)
<1> DEFINE f0 == Record(h, p, s, w, n, k, v, q)
           f1 == Record(h, p, s, w, n, k, x, q)
           f2 == Record(h, p, s, w, y, k, x, q)
<1>1. [f0 EXCEPT !.Srvr = x] = f1
  BY PutSrvr
<1>2. [f1 EXCEPT !.news = y] = f2
  BY PutNews
<1> HIDE DEF f0, f1, f2
<1>3. [f0 EXCEPT !.Srvr = x, !.news = y] = f2
  BY <1>1, <1>2, Zenon
<1> QED
  BY <1>3 DEF f0, f2, Displayed

\* Contact is lost.
Parted(svc, x, y, z) ==
  [svc EXCEPT !.contact = x, !.news = y, !.Srvr = z]

\* The record differs in contact, the statuses left and the one shown.
LEMMA PartedIs ==
  ASSUME NEW h, NEW p, NEW s, NEW w, NEW n, NEW k, NEW v, NEW q,
         NEW x, NEW y, NEW z
  PROVE  Parted(Record(h, p, s, w, n, k, v, q), x, y, z) =
           Record(h, p, s, w, y, x, z, q)
<1> DEFINE f0 == Record(h, p, s, w, n, k, v, q)
           f1 == Record(h, p, s, w, n, x, v, q)
           f2 == Record(h, p, s, w, y, x, v, q)
           f3 == Record(h, p, s, w, y, x, z, q)
<1>1. [f0 EXCEPT !.contact = x] = f1
  BY PutContact
<1>2. [f1 EXCEPT !.news = y] = f2
  BY PutNews
<1>3. [f2 EXCEPT !.Srvr = z] = f3
  BY PutSrvr
<1> HIDE DEF f0, f1, f2, f3
<1>4. [f0 EXCEPT !.contact = x, !.news = y, !.Srvr = z] = f3
  BY <1>1, <1>2, <1>3, Zenon
<1> QED
  BY <1>4 DEF f0, f3, Parted

\* The driver ends.
Ended(svc, x, y, z) ==
  [svc EXCEPT !.quit = x, !.contact = y, !.news = z]

\* The record differs in the end, contact and the statuses left.
LEMMA EndedIs ==
  ASSUME NEW h, NEW p, NEW s, NEW w, NEW n, NEW k, NEW v, NEW q,
         NEW x, NEW y, NEW z
  PROVE  Ended(Record(h, p, s, w, n, k, v, q), x, y, z) =
           Record(h, p, s, w, z, y, v, x)
<1> DEFINE f0 == Record(h, p, s, w, n, k, v, q)
           f1 == Record(h, p, s, w, n, k, v, x)
           f2 == Record(h, p, s, w, n, y, v, x)
           f3 == Record(h, p, s, w, z, y, v, x)
<1>1. [f0 EXCEPT !.quit = x] = f1
  BY PutQuit
<1>2. [f1 EXCEPT !.contact = y] = f2
  BY PutContact
<1>3. [f2 EXCEPT !.news = z] = f3
  BY PutNews
<1> HIDE DEF f0, f1, f2, f3
<1>4. [f0 EXCEPT !.quit = x, !.contact = y, !.news = z] = f3
  BY <1>1, <1>2, <1>3, Zenon
<1> QED
  BY <1>4 DEF f0, f3, Ended

\* A status is sent.
Told(svc, x) ==
  [svc EXCEPT !.news = x]

\* The record differs in the statuses.
LEMMA ToldIs ==
  ASSUME NEW h, NEW p, NEW s, NEW w, NEW n, NEW k, NEW v, NEW q,
         NEW x
  PROVE  Told(Record(h, p, s, w, n, k, v, q), x) =
           Record(h, p, s, w, x, k, v, q)
BY PutNews DEF Told

\* The program changes.
Obeyed(svc, x) ==
  [svc EXCEPT !.prog = x]

\* The record differs in the program.
LEMMA ObeyedIs ==
  ASSUME NEW h, NEW p, NEW s, NEW w, NEW n, NEW k, NEW v, NEW q,
         NEW x
  PROVE  Obeyed(Record(h, p, s, w, n, k, v, q), x) =
           Record(h, x, s, w, n, k, v, q)
BY PutProg DEF Obeyed

\* The host stops.
HostStops(svc, x, y, z) ==
  [svc EXCEPT !.host = x, !.prog = y, !.sent = z]

\* The record differs in the host, the program and the orders.
LEMMA HostStopsIs ==
  ASSUME NEW h, NEW p, NEW s, NEW w, NEW n, NEW k, NEW v, NEW q,
         NEW x, NEW y, NEW z
  PROVE  HostStops(Record(h, p, s, w, n, k, v, q), x, y, z) =
           Record(x, y, s, z, n, k, v, q)
<1> DEFINE f0 == Record(h, p, s, w, n, k, v, q)
           f1 == Record(x, p, s, w, n, k, v, q)
           f2 == Record(x, y, s, w, n, k, v, q)
           f3 == Record(x, y, s, z, n, k, v, q)
<1>1. [f0 EXCEPT !.host = x] = f1
  BY PutHost
<1>2. [f1 EXCEPT !.prog = y] = f2
  BY PutProg
<1>3. [f2 EXCEPT !.sent = z] = f3
  BY PutSent
<1> HIDE DEF f0, f1, f2, f3
<1>4. [f0 EXCEPT !.host = x, !.prog = y, !.sent = z] = f3
  BY <1>1, <1>2, <1>3, Zenon
<1> QED
  BY <1>4 DEF f0, f3, HostStops

\* The host boots.
HostBoots(svc, x, y) ==
  [svc EXCEPT !.host = x, !.status = y]

\* The record differs in the host and the status.
LEMMA HostBootsIs ==
  ASSUME NEW h, NEW p, NEW s, NEW w, NEW n, NEW k, NEW v, NEW q,
         NEW x, NEW y
  PROVE  HostBoots(Record(h, p, s, w, n, k, v, q), x, y) =
           Record(x, p, y, w, n, k, v, q)
<1> DEFINE f0 == Record(h, p, s, w, n, k, v, q)
           f1 == Record(x, p, s, w, n, k, v, q)
           f2 == Record(x, p, y, w, n, k, v, q)
<1>1. [f0 EXCEPT !.host = x] = f1
  BY PutHost
<1>2. [f1 EXCEPT !.status = y] = f2
  BY PutStatus
<1> HIDE DEF f0, f1, f2
<1>3. [f0 EXCEPT !.host = x, !.status = y] = f2
  BY <1>1, <1>2, Zenon
<1> QED
  BY <1>3 DEF f0, f2, HostBoots

\* An order is executed that may start the software.
Started(svc, c, x, y) ==
  [svc EXCEPT !.sent[c] = @ - 1, !.status = x, !.prog = y]

\* The record differs in that order, the status and the program.
LEMMA StartedIs ==
  ASSUME NEW h, NEW p, NEW s, NEW w, NEW n, NEW k, NEW v, NEW q,
         NEW c \in DOMAIN w, NEW x, NEW y
  PROVE  Started(Record(h, p, s, w, n, k, v, q), c, x, y) =
           Record(h, y, x, [w EXCEPT ![c] = @ - 1], n, k, v, q)
<1> DEFINE d == w[c] - 1
           f0 == Record(h, p, s, w, n, k, v, q)
           w1 == [w EXCEPT ![c] = d]
           f1 == Record(h, p, s, w1, n, k, v, q)
           f2 == Record(h, p, x, w1, n, k, v, q)
           f3 == Record(h, y, x, w1, n, k, v, q)
<1>1. f0.sent = w
  BY DEF Record
<1>2. f0.sent[c] - 1 = d
  BY <1>1
<1> HIDE DEF d
<1>3. [f0 EXCEPT !.sent[c] = d] = f1
  BY DEF Record
<1> HIDE DEF w1
<1>4. [f1 EXCEPT !.status = x] = f2
  BY PutStatus
<1>5. [f2 EXCEPT !.prog = y] = f3
  BY PutProg
<1> HIDE DEF f0, f1, f2, f3
<1>6. [f0 EXCEPT !.sent[c] = f0.sent[c] - 1, !.status = x, !.prog = y] = f3
  BY <1>2, <1>3, <1>4, <1>5, Zenon
<1> QED
  BY <1>6 DEF f0, f3, w1, d, Started

\* An order is executed that may halt the host.
Executed(svc, c, x, y) ==
  [svc EXCEPT !.sent[c] = @ - 1, !.status = x, !.host = y]

\* The record differs in that order, the status and the host.
LEMMA ExecutedIs ==
  ASSUME NEW h, NEW p, NEW s, NEW w, NEW n, NEW k, NEW v, NEW q,
         NEW c \in DOMAIN w, NEW x, NEW y
  PROVE  Executed(Record(h, p, s, w, n, k, v, q), c, x, y) =
           Record(y, p, x, [w EXCEPT ![c] = @ - 1], n, k, v, q)
<1> DEFINE d == w[c] - 1
           f0 == Record(h, p, s, w, n, k, v, q)
           w1 == [w EXCEPT ![c] = d]
           f1 == Record(h, p, s, w1, n, k, v, q)
           f2 == Record(h, p, x, w1, n, k, v, q)
           f3 == Record(y, p, x, w1, n, k, v, q)
<1>1. f0.sent = w
  BY DEF Record
<1>2. f0.sent[c] - 1 = d
  BY <1>1
<1> HIDE DEF d
<1>3. [f0 EXCEPT !.sent[c] = d] = f1
  BY DEF Record
<1> HIDE DEF w1
<1>4. [f1 EXCEPT !.status = x] = f2
  BY PutStatus
<1>5. [f2 EXCEPT !.host = y] = f3
  BY PutHost
<1> HIDE DEF f0, f1, f2, f3
<1>6. [f0 EXCEPT !.sent[c] = f0.sent[c] - 1, !.status = x, !.host = y] = f3
  BY <1>2, <1>3, <1>4, <1>5, Zenon
<1> QED
  BY <1>6 DEF f0, f3, w1, d, Executed

\* It is the one module Pops names.
LEMMA ServiceIs ==
  /\ AsService = Record(host, prog, status, Way(sock), News, Up, Srvr, quit)
  /\ AsService' = Record(host', prog', status', Way(sock'), News', Up', Srvr', quit')
BY DEF AsService, OnTheirWay, Unread, SrvP!Line, InLine, Way, News, Record, Up

\* Its parts, by name.
LEMMA ServiceParts ==
  /\ AsService.host = host /\ AsService.prog = prog /\ AsService.status = status
  /\ AsService.sent = Way(sock) /\ AsService.news = News /\ AsService.contact = Up
  /\ AsService.Srvr = Srvr /\ AsService.quit = quit
BY ServiceIs, PartsAre

\* Steps that the service does not see.
LEMMA Unseen ==
  ASSUME UNCHANGED <<host, prog, status, Srvr, quit>>, Way(sock') = Way(sock),
         News' = News, link' = "up" <=> link = "up"
  PROVE  UNCHANGED AsService
<1>1. Up' = Up
  BY DEF Up
<1> QED
  BY <1>1, ServiceIs, Zenon

\* What is news when the step leaves the replies on the connection alone.
LEMMA NewsKept ==
  ASSUME cur' = cur, cur # NoConn => sock'[cur].rep = sock[cur].rep
  PROVE  News' = News
BY DEF News

\* A step that changes one connection, and not what waits there.
LEMMA SameLines ==
  ASSUME NEW i \in Conns, Others(i), sock'[i].req = sock[i].req, sock'[i].buf = sock[i].buf
  PROVE  Way(sock') = Way(sock)
<1>1. SrvP!Same(sock, sock')
  BY DEF SrvP!Same, SrvP!Line, Others
<1> QED
  BY <1>1, WaySame

\* What the invariant says of the connections.
LEMMA SocksAre ==
  ASSUME PopsInv, [Next]_vars
  PROVE  /\ SrvP!Talk /\ SrvP!Talk' /\ sock \in SrvP!Sockets /\ sock' \in SrvP!Sockets
         /\ SrvP!MachineType /\ Linked /\ Waiting
         /\ cur \in Conns \cup {NoConn} /\ (cur = NoConn <=> link = "down")
         /\ \A i \in Conns : i # NoConn
         /\ \A i \in Conns : sock[i].req \in Seq(Orders \cup {"V"})
         /\ "V" \notin Orders
<1>1. PopsInv' /\ SrvP!Talk
  BY NextPops DEF PopsInv, SrvP!SrvrInv
<1>2. "V" \notin Orders
  BY PopsAssumption
<1> QED
  BY <1>1, <1>2, SockType, Bounds DEF PopsInv, SrvP!SrvrInv, SrvP!Talk, Linked

\* A command that is sent is on its way, or lost.
LEMMA SendWay ==
  ASSUME PopsInv, [Next]_vars, NEW i \in Conns, NEW c \in Orders \cup {"V"},
         Srv!Send(i, c)
  PROVE  \/ Way(sock') = Way(sock)
         \/ c \in Orders /\ Way(sock') = [Way(sock) EXCEPT ![c] = @ + 1]
<1>1. /\ SrvP!Talk /\ sock \in SrvP!Sockets /\ sock' \in SrvP!Sockets
      /\ sock[i].req \in Seq(Orders \cup {"V"}) /\ sock[i].buf \in Seq(Orders \cup {"V"})
  BY SocksAre, SockType
<1>2. /\ Others(i) /\ sock'[i].buf = sock[i].buf
      /\ sock'[i].req = IF sock[i].srv = "open" THEN Append(sock[i].req, c)
                        ELSE sock[i].req
  BY <1>1, SendIs
<1>3. CASE sock[i].srv # "open"
  BY <1>2, <1>3, SameLines
<1>4. CASE sock[i].srv = "open"
  <2> DEFINE b == sock[i].buf
             q == sock[i].req
  <2>1. b \in Seq(Orders \cup {"V"}) /\ q \in Seq(Orders \cup {"V"})
    BY <1>1
  <2> HIDE DEF b, q
  <2>2. b \o Append(q, c) = Append(b \o q, c)
    BY <2>1, SrvP!LineOfAppend, ServerAssumption
  <2>3. SrvP!Puts(sock, sock', i, c)
    BY <1>2, <1>4, <2>2 DEF SrvP!Puts, SrvP!Line, Others, b, q
  <2> QED
    BY <1>1, <2>3, WayPut
<1> QED
  BY <1>3, <1>4

\* A command forwarded changes nothing else that the service sees.
LEMMA ForwardUnseen ==
  ASSUME PopsInv, [Next]_vars, NEW c \in Orders \cup {"V"}, Forward(c),
         UNCHANGED <<link, cur, Srvr, quit>>
  PROVE  /\ UNCHANGED <<host, prog, status>> /\ News' = News
         /\ \/ Way(sock') = Way(sock)
            \/ /\ link = "up" /\ c \in Orders
               /\ Way(sock') = [Way(sock) EXCEPT ![c] = @ + 1]
<1>0. SrvP!Talk /\ cur \in Conns \cup {NoConn} /\ (cur = NoConn <=> link = "down")
  BY SocksAre
<1>1. CASE link # "up"
  <2>1. UNCHANGED srvVars
    BY <1>1 DEF Forward
  <2> QED
    BY <2>1, NewsKept DEF srvVars
<1>2. CASE link = "up"
  <2>1. cur \in Conns /\ Srv!Send(cur, c)
    BY <1>0, <1>2 DEF Forward
  <2>2. sock'[cur].rep = sock[cur].rep /\ UNCHANGED <<host, prog, status>>
    BY <1>0, <2>1, SendIs DEF Srv!Send, Srv!hostVars
  <2> QED
    BY <1>2, <2>1, <2>2, SendWay, NewsKept
<1> QED
  BY <1>1, <1>2

\* What driver, server and instrument do of their own, without the operator.
DriversOwn ==
  Connect \/ Negotiate \/ AppInput \/ Timeout \/ Eof \/ TmSync \/ Quit
Promised == Service!Driver \/ Service!Instrument \/ UNCHANGED AsService

\* The steps that the driver takes of its own, as those of PopsService.
LEMMA DriverStep ==
  ASSUME PopsInv, [Next]_vars, DriversOwn \/ Sample
  PROVE  Promised
<1>0. /\ SrvP!Talk /\ Linked /\ Waiting
      /\ cur \in Conns \cup {NoConn} /\ (cur = NoConn <=> link = "down")
      /\ \A i \in Conns : i # NoConn
      /\ "V" \notin Orders
  BY SocksAre
<1>1. CASE Sample
  <2>1. UNCHANGED <<srvVars, link, cur, Srvr, quit>>
    BY <1>1 DEF Sample, clientVars
  <2> QED
    BY <2>1, Unseen, NewsKept DEF Promised, srvVars
<1>2. CASE Connect
  <2>1. PICK i \in Conns : Srv!Accept(i) /\ cur' = i
    BY <1>2 DEF Connect
  <2>2. /\ Others(i) /\ sock[i].srv = "none"
        /\ sock'[i].req = <<>> /\ sock'[i].buf = <<>> /\ sock'[i].rep = <<>>
    BY <1>0, <2>1, AcceptIs
  <2>3. sock[i].req = <<>> /\ sock[i].buf = <<>>
    BY <1>0, <2>2, SockType
  <2>4. Way(sock') = Way(sock)
    BY <2>2, <2>3, SameLines
  <2>5. News' = News
    BY <1>0, <1>2, <2>1, <2>2 DEF News, Connect
  <2>6. UNCHANGED <<host, prog, status, Srvr, quit>> /\ link = "down" /\ link' = "connected"
    BY <1>2, <2>1 DEF Connect, Srv!Accept, Srv!hostVars
  <2> QED
    BY <2>4, <2>5, <2>6, Unseen DEF Promised
<1>3. CASE Negotiate
  <2>1. cur \in Conns /\ Srv!Send(cur, "V") /\ sock[cur].srv = "open"
    BY <1>0, <1>3 DEF Negotiate
  <2>2. Way(sock') = Way(sock)
    BY <1>0, <2>1, SendWay
  <2>3. News' = News
    BY <1>0, <1>3, <2>1, SendIs, NewsKept DEF Negotiate
  <2>4. host # "off"
    BY <1>0, <2>1 DEF Waiting, AtServer
  <2>5. UNCHANGED <<host, prog, status, Srvr, quit>> /\ ~quit /\ link = "connected"
        /\ link' = "up"
    BY <1>3 DEF Negotiate, Srv!Send, Srv!hostVars
  <2>6. Up = FALSE /\ Up' = TRUE
    BY <2>5 DEF Up
  <2>7. AsService' = Joined(AsService, Up')
    BY <2>2, <2>3, <2>5, ServiceIs, JoinedIs
  <2>8. Service!Contact
    BY <2>4, <2>5, <2>6, <2>7, ServiceParts, Zenon
       DEF Service!Contact, Service!Running, Joined
  <2> QED
    BY <2>8 DEF Promised, Service!Driver
<1>4. CASE AppInput
  <2>1. PICK k \in 1 .. Len(sock[cur].rep) :
          Srv!TakeReplies(cur, k) /\ Srvr' = sock[cur].rep[k]
    BY <1>4 DEF AppInput, Shown
  <2>2. cur \in Conns /\ cur # NoConn /\ ~quit /\ link = "up" /\ UNCHANGED <<link, cur, quit>>
    BY <1>0, <1>4 DEF AppInput
  <2>3. /\ Others(cur) /\ sock'[cur].req = sock[cur].req /\ sock'[cur].buf = sock[cur].buf
        /\ sock'[cur].rep = SubSeq(sock[cur].rep, k + 1, Len(sock[cur].rep))
    BY <1>0, <2>1, <2>2, TakeRepliesIs
  <2>4. Way(sock') = Way(sock)
    BY <2>2, <2>3, SameLines
  <2>5. News = sock[cur].rep /\ News' = SubSeq(News, k + 1, Len(News)) /\ Srvr' = News[k]
        /\ k \in 1 .. Len(News)
    BY <2>1, <2>2, <2>3 DEF News
  <2>6. UNCHANGED <<host, prog, status>>
    BY <2>1 DEF Srv!TakeReplies, Srv!hostVars
  <2>7. Up = TRUE /\ Up' = Up
    BY <2>2 DEF Up
  <2>8. AsService' = Displayed(AsService, News[k], SubSeq(News, k + 1, Len(News)))
    <3>1. AsService' = Record(host, prog, status, Way(sock), News', Up, Srvr', quit)
      BY <2>2, <2>4, <2>6, <2>7, ServiceIs
    <3>2. Displayed(Record(host, prog, status, Way(sock), News, Up, Srvr, quit), Srvr', News')
          = Record(host, prog, status, Way(sock), News', Up, Srvr', quit)
      BY DisplayedIs
    <3> QED
      BY <2>5, <3>1, <3>2, ServiceIs
  <2>9. Service!Read
    BY <2>2, <2>5, <2>7, <2>8, ServiceParts, Zenon DEF Service!Read, Displayed
  <2> QED
    BY <2>9 DEF Promised, Service!Driver
<1>5. ASSUME NEW i \in Conns, Srv!Hangup(i)
      PROVE  Way(sock') = Way(sock) /\ UNCHANGED <<host, prog, status>>
  BY <1>0, <1>5, HangupIs, SameLines DEF Srv!Hangup, Srv!hostVars
<1>6. CASE Timeout \/ Eof
  <2>1. cur \in Conns /\ Srv!Hangup(cur) /\ ~quit /\ quit' = quit /\ Srvr' = 0
        /\ link' = "down" /\ cur' = NoConn
    BY <1>0, <1>6 DEF Timeout, Eof, GiveUp, SrvrLost
  <2>2. Way(sock') = Way(sock) /\ UNCHANGED <<host, prog, status>> /\ News' = <<>>
    BY <1>5, <2>1 DEF News
  <2>3. Up' = FALSE
    BY <2>1 DEF Up
  <2>4. AsService' = Parted(AsService, Up', <<>>, 0)
    BY <2>1, <2>2, ServiceIs, PartedIs
  <2>5. Service!LoseContact
    BY <2>1, <2>3, <2>4, ServiceParts, Zenon DEF Service!LoseContact, Parted
  <2> QED
    BY <2>5 DEF Promised, Service!Driver
<1>7. CASE Quit
  <2>1. ~quit /\ quit' = TRUE /\ Srvr' = Srvr /\ link' = "down" /\ cur' = NoConn
    BY <1>7 DEF Quit
  <2>2. Way(sock') = Way(sock) /\ UNCHANGED <<host, prog, status>>
    BY <1>0, <1>5, <1>7 DEF Quit, srvVars
  <2>3. News' = <<>>
    BY <2>1 DEF News
  <2>4. Up' = FALSE /\ quit' = TRUE
    BY <2>1 DEF Up
  <2>5. AsService' = Ended(AsService, quit', Up', <<>>)
    <3>1. AsService' = Record(host, prog, status, Way(sock), <<>>, Up', Srvr, quit')
      BY <2>1, <2>2, <2>3, ServiceIs
    <3>2. Ended(Record(host, prog, status, Way(sock), News, Up, Srvr, quit), quit', Up', <<>>)
          = Record(host, prog, status, Way(sock), <<>>, Up', Srvr, quit')
      BY EndedIs
    <3> QED
      BY <3>1, <3>2, ServiceIs
  <2>6. Service!Quit
    BY <2>1, <2>4, <2>5, ServiceParts, Zenon DEF Service!Quit, Ended
  <2> QED
    BY <2>6 DEF Promised, Service!Driver
<1>8. CASE TmSync
  <2>1. UNCHANGED <<link, cur, Srvr, quit>> /\ (Forward("V") \/ UNCHANGED srvVars)
    BY <1>8 DEF TmSync
  <2>2. CASE UNCHANGED srvVars
    BY <2>1, <2>2, Unseen, NewsKept DEF Promised, srvVars
  <2>3. CASE Forward("V")
    <3>1. /\ UNCHANGED <<host, prog, status>> /\ News' = News
          /\ Way(sock') = Way(sock)
      BY <1>0, <2>1, <2>3, ForwardUnseen
    <3> QED
      BY <2>1, <3>1, Unseen DEF Promised
  <2> QED
    BY <2>1, <2>2, <2>3
<1> QED
  BY <1>1, <1>2, <1>3, <1>4, <1>6, <1>7, <1>8 DEF DriversOwn

\* What the server's steps leave of the driver's part of the record.
LEMMA DriverKept ==
  ASSUME UNCHANGED clientVars
  PROVE  UNCHANGED <<link, cur, Srvr, quit>> /\ Up' = Up
BY DEF clientVars, Up

\* A turn for an order: it was on its way, and is no more.
LEMMA TurnWay ==
  ASSUME PopsInv, [Next]_vars, NEW c, Srv!Turn(c), sock' = Srv!Consumed,
         serving' = serving, UNCHANGED clientVars
  PROVE  /\ c \in Orders \cup {"V"} /\ host # "off" /\ News' = News
         /\ c = "V" => Way(sock') = Way(sock)
         /\ c # "V" => /\ c \in Orders /\ Way(sock)[c] > 0 /\ c \in DOMAIN Way(sock)
                       /\ Way(sock') = [Way(sock) EXCEPT ![c] = @ - 1]
<1>1. /\ SrvP!Talk /\ sock \in SrvP!Sockets /\ sock' \in SrvP!Sockets
      /\ "V" \notin Orders /\ cur \in Conns \cup {NoConn}
  BY SocksAre
<1>2. SrvP!Turn(c) /\ sock' = SrvP!Consumed /\ serving \in Conns /\ host # "off"
  BY <1>1 DEF Srv!Turn, SrvP!Turn, Srv!Consumed, SrvP!Consumed, Srv!Running,
    SrvP!Running, SrvP!Talk
<1>3. SrvP!Takes(sock, sock', serving, c) /\ c \in Orders \cup {"V"}
  BY <1>1, <1>2, SrvP!TurnStep, SrvP!ConsumedAnswers, ServerAssumption
<1>4. \A i \in Conns : sock'[i].rep = sock[i].rep
  BY <1>1, <1>2 DEF SrvP!Consumed, SrvP!Sockets, SrvP!Socket
<1>5. News' = News
  BY <1>1, <1>4, NewsKept DEF clientVars
<1>6. /\ Way(sock') = IF c \in Orders THEN [Way(sock) EXCEPT ![c] = @ - 1] ELSE Way(sock)
      /\ c \in Orders => Way(sock)[c] > 0
  BY <1>1, <1>2, <1>3, WayTake
<1>7. DOMAIN Way(sock) = Orders
  BY DEF Way
<1> QED
  BY <1>1, <1>2, <1>3, <1>5, <1>6, <1>7

\* The turns of the loop, as the executions of PopsService.
LEMMA TurnSteps ==
  ASSUME PopsInv, [Next]_vars, Turns, UNCHANGED clientVars
  PROVE  Promised
<1>0. UNCHANGED <<link, cur, Srvr, quit>> /\ Up' = Up
  BY DriverKept
<1> DEFINE f0 == Record(host, prog, status, Way(sock), News, Up, Srvr, quit)
<1>1. AsService = f0
  BY ServiceIs
<1>2. CASE Srv!Status
  <2>1. Srv!Turn("V") /\ sock' = Srv!Consumed /\ UNCHANGED <<host, prog, status, serving>>
    BY <1>2 DEF Srv!Status, Srv!hostVars
  <2>2. News' = News /\ Way(sock') = Way(sock)
    BY <2>1, TurnWay
  <2> QED
    BY <1>0, <2>1, <2>2, Unseen DEF Promised
<1>3. CASE Srv!Start
  <2>1. /\ Srv!Turn("B") /\ sock' = Srv!Consumed /\ UNCHANGED <<host, serving>>
        /\ status' = Service!POPS_active
        /\ prog' \in {prog, IF host = "up" THEN "run" ELSE prog}
    BY <1>3 DEF Srv!Start, Srv!POPS_active, Service!POPS_active
  <2>2. /\ News' = News /\ host # "off" /\ "B" \in Orders /\ Way(sock)["B"] > 0
        /\ "B" \in DOMAIN Way(sock) /\ Way(sock') = [Way(sock) EXCEPT !["B"] = @ - 1]
    BY <2>1, TurnWay
  <2>3. Started(f0, "B", status', prog') =
          Record(host, prog', status', Way(sock'), News, Up, Srvr, quit)
    <3>1. "B" \in DOMAIN Way(sock)
      BY <2>2
    <3>2. Started(f0, "B", status', prog') =
            Record(host, prog', status', [Way(sock) EXCEPT !["B"] = @ - 1], News, Up,
                   Srvr, quit)
      BY <3>1, StartedIs
    <3> QED
      BY <2>2, <3>2
  <2>4. AsService' = Started(AsService, "B", status', prog')
    BY <1>0, <1>1, <2>1, <2>2, <2>3, ServiceIs
  <2>5. Service!Executes("B")
    BY <2>2, ServiceParts DEF Service!Executes, Service!Running
  <2>6. prog' \in {AsService.prog, IF AsService.host = "up" THEN "run" ELSE AsService.prog}
    BY <2>1, ServiceParts
  <2>7. Service!Start
    BY <2>1, <2>4, <2>5, <2>6 DEF Service!Start, Started
  <2> QED
    BY <2>7 DEF Promised, Service!Instrument
<1>4. CASE Srv!Shutdown
  <2>1. /\ Srv!Turn("E") /\ sock' = Srv!Consumed /\ UNCHANGED <<prog, serving>>
        /\ status' = Service!POPS_shutdown
        /\ host' = IF status # Service!POPS_active THEN "halting" ELSE host
    BY <1>4 DEF Srv!Shutdown, Srv!Halts, Srv!POPS_active, Service!POPS_active,
      Srv!POPS_shutdown, Service!POPS_shutdown
  <2>2. /\ News' = News /\ host # "off" /\ "E" \in Orders /\ Way(sock)["E"] > 0
        /\ "E" \in DOMAIN Way(sock) /\ Way(sock') = [Way(sock) EXCEPT !["E"] = @ - 1]
    BY <2>1, TurnWay
  <2>3. Executed(f0, "E", status', host') =
          Record(host', prog, status', Way(sock'), News, Up, Srvr, quit)
    <3>1. "E" \in DOMAIN Way(sock)
      BY <2>2
    <3>2. Executed(f0, "E", status', host') =
            Record(host', prog, status', [Way(sock) EXCEPT !["E"] = @ - 1], News, Up,
                   Srvr, quit)
      BY <3>1, ExecutedIs
    <3> QED
      BY <2>2, <3>2
  <2>4. AsService' = Executed(AsService, "E", status', host')
    BY <1>0, <1>1, <2>1, <2>2, <2>3, ServiceIs
  <2>5. Service!Executes("E")
    BY <2>2, ServiceParts DEF Service!Executes, Service!Running
  <2>6. host' = IF Service!Halts THEN "halting" ELSE AsService.host
    BY <2>1, ServiceParts DEF Service!Halts
  <2>7. Service!Shutdown
    BY <2>1, <2>4, <2>5, <2>6, Zenon DEF Service!Shutdown, Executed
  <2> QED
    BY <2>7 DEF Promised, Service!Instrument
<1>5. CASE Srv!ForcedShutdown
  <2>1. /\ Srv!Turn("F") /\ sock' = Srv!Consumed /\ UNCHANGED <<prog, serving>>
        /\ status' = Service!POPS_shutdown /\ host' = "halting"
    BY <1>5 DEF Srv!ForcedShutdown, Srv!POPS_shutdown, Service!POPS_shutdown
  <2>2. /\ News' = News /\ host # "off" /\ "F" \in Orders /\ Way(sock)["F"] > 0
        /\ "F" \in DOMAIN Way(sock) /\ Way(sock') = [Way(sock) EXCEPT !["F"] = @ - 1]
    BY <2>1, TurnWay
  <2>3. Executed(f0, "F", status', host') =
          Record(host', prog, status', Way(sock'), News, Up, Srvr, quit)
    <3>1. "F" \in DOMAIN Way(sock)
      BY <2>2
    <3>2. Executed(f0, "F", status', host') =
            Record(host', prog, status', [Way(sock) EXCEPT !["F"] = @ - 1], News, Up,
                   Srvr, quit)
      BY <3>1, ExecutedIs
    <3> QED
      BY <2>2, <3>2
  <2>4. AsService' = Executed(AsService, "F", status', host')
    BY <1>0, <1>1, <2>1, <2>2, <2>3, ServiceIs
  <2>5. Service!Executes("F")
    BY <2>2, ServiceParts DEF Service!Executes, Service!Running
  <2>6. Service!ForcedShutdown
    BY <2>1, <2>4, <2>5, Zenon DEF Service!ForcedShutdown, Executed
  <2> QED
    BY <2>6 DEF Promised, Service!Instrument
<1> QED
  BY <1>2, <1>3, <1>4, <1>5 DEF Turns

\* A reply is a report, on the connection that POPS_client holds.
LEMMA ReplyReports ==
  ASSUME PopsInv, [Next]_vars, Srv!Reply, UNCHANGED clientVars
  PROVE  Promised
<1>0. UNCHANGED <<link, cur, Srvr, quit>> /\ Up' = Up
  BY DriverKept
<1>1. /\ SrvP!Talk /\ sock \in SrvP!Sockets /\ Linked /\ Waiting
      /\ cur \in Conns \cup {NoConn} /\ (cur = NoConn <=> link = "down")
      /\ \A i \in Conns : i # NoConn
  BY SocksAre
<1> DEFINE i == serving
<1>2. /\ Others(i) /\ UNCHANGED <<host, prog, status>> /\ i \in Conns /\ host # "off"
      /\ sock[i].buf = <<>> /\ sock'[i].buf = <<>> /\ sock'[i].req = sock[i].req
      /\ sock'[i].rep = IF sock[i].peer THEN Append(sock[i].rep, status) ELSE sock[i].rep
  BY <1>1, ReplyIs
<1>3. Way(sock') = Way(sock)
  BY <1>2, SameLines
<1>4. CASE i # cur
  <2>1. News' = News
    BY <1>0, <1>1, <1>2, <1>4, NewsKept DEF Others
  <2> QED
    BY <1>0, <1>2, <1>3, <2>1, Unseen DEF Promised
<1>5. CASE i = cur
  <2>1. link = "up" /\ sock[i].peer /\ cur # NoConn
    BY <1>1, <1>2, <1>5 DEF Linked
  <2>2. News = sock[i].rep /\ News' = Append(News, status)
    BY <1>0, <1>2, <1>5, <2>1 DEF News
  <2>3. Len(sock[i].rep) < MaxPolls + MaxSent + 1
    <3>1. Room(i) /\ Sizes(i) /\ Serves(i) = 1 /\ nSent \in 0 .. MaxSent
      BY <1>1, <1>2, SizesAre DEF Waiting, Serves, PopsInv
    <3> QED
      BY <3>1, Bounds DEF Room, Sizes, Telling
  <2>4. Up = TRUE
    BY <2>1 DEF Up
  <2>5. Told(Record(host, prog, status, Way(sock), News, Up, Srvr, quit), News') =
          Record(host, prog, status, Way(sock), News', Up, Srvr, quit)
    BY ToldIs
  <2>6. AsService' = Told(AsService, News')
    BY <1>0, <1>2, <1>3, <2>5, ServiceIs
  <2>7. AsService.news = News /\ AsService.status = status /\ AsService.host # "off"
        /\ AsService.contact = TRUE
    BY <1>2, <2>4, ServiceParts
  <2>8. Len(AsService.news) < MaxPolls + MaxSent + 1
    BY <2>2, <2>3, <2>7
  <2>9. AsService' = [AsService EXCEPT !.news = Append(AsService.news, AsService.status)]
    BY <2>2, <2>6, <2>7, Zenon DEF Told
  <2>10. Service!Report
    BY <2>7, <2>8, <2>9 DEF Service!Report, Service!Running
  <2> QED
    BY <2>10 DEF Promised, Service!Instrument
<1> QED
  BY <1>4, <1>5

\* The computer stops: nothing is on its way any more.
LEMMA StopStops ==
  ASSUME PopsInv, [Next]_vars, NEW end \in {"fin", "gone"}, Srv!Stopped(end), host # "off",
         status' = status, UNCHANGED clientVars
  PROVE  Promised
<1>0. UNCHANGED <<link, cur, Srvr, quit>> /\ Up' = Up
  BY DriverKept
<1>1. /\ SrvP!Talk /\ sock' \in SrvP!Sockets /\ Linked
      /\ cur \in Conns \cup {NoConn} /\ (cur = NoConn <=> link = "down")
  BY SocksAre
<1>2. \A i \in Conns : SrvP!Line(sock', i) = <<>>
  BY <1>1, SameServer, SrvP!StopStep, ServerAssumption
<1>3. Way(sock') = Service!NoOrders
  BY <1>1, <1>2, WayNone DEF Service!NoOrders
<1>4. News' = News
  <2>1. cur # NoConn => sock'[cur].rep = sock[cur].rep
    BY <1>1, StoppedIs DEF Linked
  <2> QED
    BY <1>0, <2>1, NewsKept
<1>5. host' = "off" /\ prog' = "off"
  BY DEF Srv!Stopped
<1>6. HostStops(Record(host, prog, status, Way(sock), News, Up, Srvr, quit),
                host', prog', Way(sock')) =
        Record(host', prog', status, Way(sock'), News, Up, Srvr, quit)
  BY HostStopsIs
<1>7. AsService' = HostStops(AsService, host', prog', Way(sock'))
  BY <1>0, <1>4, <1>6, ServiceIs
<1>8. AsService.host # "off"
  BY ServiceParts
<1>9. Service!Stops
  BY <1>3, <1>5, <1>7, <1>8, Zenon DEF Service!Stops, Service!Running, HostStops
<1> QED
  BY <1>9 DEF Promised, Service!Instrument

\* The computer and the software, as those of PopsService.
LEMMA MachineSteps ==
  ASSUME PopsInv, [Next]_vars, Srv!Machine, UNCHANGED clientVars
  PROVE  Promised
<1>0. UNCHANGED <<link, cur, Srvr, quit>> /\ Up' = Up
  BY DriverKept
<1>1. CASE Srv!EightArrives
  <2>1. /\ UNCHANGED <<host, status, sock>> /\ prog' \in {prog, "off"} /\ host # "off"
        /\ prog \in {"off", "run"}
    BY <1>1, SocksAre DEF Srv!EightArrives, Srv!Running, SrvP!MachineType
  <2>2. Way(sock') = Way(sock) /\ News' = News
    BY <1>0, <2>1, NewsKept
  <2>3. CASE prog' = prog
    BY <1>0, <2>1, <2>2, <2>3, Unseen DEF Promised
  <2>4. CASE prog' # prog
    <3>1. prog = "run" /\ prog' = "off"
      BY <2>1, <2>4
    <3>2. Obeyed(Record(host, prog, status, Way(sock), News, Up, Srvr, quit), prog') =
            Record(host, prog', status, Way(sock), News, Up, Srvr, quit)
      BY ObeyedIs
    <3>3. AsService' = Obeyed(AsService, prog')
      BY <1>0, <2>1, <2>2, <3>2, ServiceIs
    <3>4. AsService.host # "off" /\ AsService.prog = "run"
      BY <2>1, <3>1, ServiceParts
    <3>5. Service!Ends
      BY <3>1, <3>3, <3>4, Zenon DEF Service!Ends, Service!Running, Obeyed
    <3> QED
      BY <3>5 DEF Promised, Service!Instrument
  <2> QED
    BY <2>3, <2>4
<1>2. CASE Srv!HostHalts
  BY <1>2, StopStops DEF Srv!HostHalts
<1>3. CASE Srv!PowerOff
  BY <1>3, StopStops DEF Srv!PowerOff, Srv!Running
<1>4. CASE Srv!PowerOn
  <2>1. /\ host = "off" /\ host' = "up" /\ status' = Service!POPS_idle
        /\ UNCHANGED <<prog, sock>>
    BY <1>4 DEF Srv!PowerOn, Srv!POPS_idle, Service!POPS_idle
  <2>2. Way(sock') = Way(sock) /\ News' = News
    BY <1>0, <2>1, NewsKept
  <2>3. HostBoots(Record(host, prog, status, Way(sock), News, Up, Srvr, quit), host', status') =
          Record(host', prog, status', Way(sock), News, Up, Srvr, quit)
    BY HostBootsIs
  <2>4. AsService' = HostBoots(AsService, host', status')
    BY <1>0, <2>1, <2>2, <2>3, ServiceIs
  <2>5. AsService.host = "off"
    BY <2>1, ServiceParts
  <2>6. Service!Boots
    BY <2>1, <2>4, <2>5, Zenon DEF Service!Boots, Service!Running, HostBoots
  <2> QED
    BY <2>6 DEF Promised, Service!Instrument
<1> QED
  BY <1>1, <1>2, <1>3, <1>4 DEF Srv!Machine

\* What the server reads, and an end of a connection that nobody holds.
LEMMA ReadUnseen ==
  ASSUME PopsInv, [Next]_vars, NEW i \in Conns, Srv!Read(i) \/ Srv!Reap(i),
         UNCHANGED clientVars
  PROVE  UNCHANGED AsService
<1>0. UNCHANGED <<link, cur, Srvr, quit>> /\ Up' = Up
  BY DriverKept
<1>1. /\ SrvP!Talk /\ Linked /\ Waiting /\ cur \in Conns \cup {NoConn}
      /\ (cur = NoConn <=> link = "down")
  BY SocksAre
<1>2. CASE Srv!Read(i)
  <2>1. Way(sock') = Way(sock)
    BY <1>1, <1>2, SameServer, SrvP!ReadStep, ServerAssumption, WaySame
  <2>2. News' = News
    BY <1>0, <1>1, <1>2, ReadIs, NewsKept DEF Others
  <2>3. UNCHANGED <<host, prog, status>>
    BY <1>2 DEF Srv!Read, Srv!hostVars
  <2> QED
    BY <1>0, <2>1, <2>2, <2>3, Unseen
<1>3. CASE Srv!Reap(i)
  <2>1. /\ Others(i) /\ ~sock[i].peer /\ sock[i].req = <<>> /\ serving = NoConn
        /\ sock'[i].req = <<>> /\ sock'[i].buf = <<>>
    BY <1>1, <1>3, ReapIs
  <2>2. sock[i].buf = <<>>
    BY <1>1, <2>1, Bounds DEF Waiting, AtServer
  <2>3. Way(sock') = Way(sock)
    BY <2>1, <2>2, SameLines
  <2>4. cur # i
    BY <1>1, <2>1, Bounds DEF Linked
  <2>5. News' = News
    BY <1>0, <1>1, <2>1, <2>4, NewsKept DEF Others
  <2>6. UNCHANGED <<host, prog, status>>
    BY <1>3 DEF Srv!Reap, Srv!hostVars
  <2> QED
    BY <1>0, <2>3, <2>5, <2>6, Unseen
<1> QED
  BY <1>2, <1>3

\* Every step but the operator's is one of the service's driver or instrument,
\* or not seen there.
LEMMA OwnStep ==
  ASSUME PopsInv, [Next]_vars, ~(\E c \in Orders : Order(c))
  PROVE  Promised
<1>1. CASE DriversOwn \/ Sample
  BY <1>1, DriverStep
<1>2. CASE ServerRuns \/ Elsewhere \/ \E i \in Conns : ServerReads(i)
  <2>1. ServerSide /\ UNCHANGED clientVars
    BY <1>2, SocksAre, ServedSteps
  <2>2. CASE \E i \in Conns : Srv!Read(i) \/ Srv!Reap(i)
    BY <2>1, <2>2, ReadUnseen DEF Promised
  <2>3. CASE Turns
    BY <2>1, <2>3, TurnSteps
  <2>4. CASE Srv!Reply
    BY <2>1, <2>4, ReplyReports
  <2>5. CASE Srv!ShutdownConnected
    BY <2>1, <2>5, DriverKept, NewsKept, Unseen DEF Promised, Srv!ShutdownConnected
  <2>6. CASE Srv!Machine
    BY <2>1, <2>6, MachineSteps
  <2> QED
    BY <2>1, <2>2, <2>3, <2>4, <2>5, <2>6 DEF ServerSide
<1>3. CASE UNCHANGED vars
  BY <1>3, Unseen, NewsKept DEF Promised, vars, srvVars, clientVars
<1> QED
  BY <1>1, <1>2, <1>3 DEF Next, Driver, DriversOwn

\* An order is one of the service's, or lost.
LEMMA OrderStep ==
  ASSUME PopsInv, [Next]_vars, NEW c \in Orders, Order(c)
  PROVE  Service!Order(c)
<1>1. UNCHANGED <<link, cur, Srvr, quit>> /\ Forward(c)
  BY DEF Order
<1>2. /\ UNCHANGED <<host, prog, status>> /\ News' = News
      /\ \/ Way(sock') = Way(sock)
         \/ link = "up" /\ Way(sock') = [Way(sock) EXCEPT ![c] = @ + 1]
  BY <1>1, ForwardUnseen
<1>3. CASE Way(sock') = Way(sock)
  BY <1>1, <1>2, <1>3, Unseen DEF Service!Order
<1>4. CASE link = "up" /\ Way(sock') = [Way(sock) EXCEPT ![c] = @ + 1]
  <2>1. Up' = Up /\ AsService.contact = Up
    BY <1>1, ServiceParts DEF Up
  <2>2. AsService' = [AsService EXCEPT !.sent[c] = @ + 1]
    BY <1>1, <1>2, <1>4, <2>1, ServiceIs DEF Record
  <2> QED
    BY <1>4, <2>1, <2>2 DEF Service!Order, Up
<1> QED
  BY <1>2, <1>3, <1>4

\* Every step of driver and server is one of PopsService, or not seen there.
LEMMA ServiceStep ==
  ASSUME PopsInv, [Next]_vars
  PROVE  [Service!Next]_AsService
BY OwnStep, OrderStep DEF Promised, Service!Next

\* Driver and instrument start as PopsService does.
LEMMA ServiceInit ==
  ASSUME Init
  PROVE  Service!Init
<1>1. /\ host = "up" /\ prog = "off" /\ status = Service!POPS_idle
      /\ link = "down" /\ cur = NoConn /\ Srvr = 0 /\ quit = FALSE
  BY DEF Init, Srv!Init, Srv!POPS_idle, Service!POPS_idle
<1>2. sock \in SrvP!Sockets
  BY InitPops DEF PopsInv, SrvP!SrvrInv, SrvP!Talk
<1>3. \A i \in Conns : SrvP!Line(sock, i) = <<>>
  BY DEF Init, Srv!Init, Srv!Free, SrvP!Line
<1>4. Way(sock) = Service!NoOrders
  BY <1>2, <1>3, WayNone DEF Service!NoOrders
<1>5. Up = FALSE /\ News = <<>>
  BY <1>1 DEF Up, News
<1>6. AsService = Record("up", "off", Service!POPS_idle, Service!NoOrders, <<>>, FALSE, 0,
                         FALSE)
  BY <1>1, <1>4, <1>5, ServiceIs, Zenon
<1> QED
  BY <1>6, Zenon DEF Service!Init, Service!Fresh, Record

\* POPS_client, POPS_Cmd and POPS_srvr together keep the promise of
\* PopsService: an order is executed once, late or never, on whatever
\* connection; the telemetry shows statuses the server had, in their order, and
\* none without the server's consent.
THEOREM ImplementsService == Spec => ServiceSpec
<1>1. PopsInv /\ [Next]_vars => [Service!Next]_AsService
  BY ServiceStep
<1>2. Init => Service!Init
  BY ServiceInit
<1> QED
  BY <1>1, <1>2, AlwaysPops, PTL DEF Spec, ServiceSpec, Service!Spec

-----------------------------------------------------------------------------
(* What the operator is owed.                                              *)

\* The service's record, field by field.
LEMMA RecordOf ==
  ASSUME PopsInv, [Next]_vars
  PROVE  /\ AsService = [host |-> host, prog |-> prog, status |-> status,
                         sent |-> Way(sock), news |-> News, contact |-> Up,
                         Srvr |-> Srvr, quit |-> quit]
         /\ Way(sock) \in [Orders -> Nat] /\ Way(sock') \in [Orders -> Nat]
         /\ AsService'.sent = Way(sock')
<1>1. AsService'.sent = Way(sock')
  BY ServiceIs DEF Record
<1> QED
  BY <1>1, ServiceIs, SocksAre, WayType DEF Record

\* The driver's own steps, the server's and the instrument's put no order on its
\* way.
LEMMA NoneOfItsOwn ==
  ASSUME PopsInv, [Next]_vars, Promised, NEW c \in Orders
  PROVE  Way(sock')[c] <= Way(sock)[c]
<1> DEFINE w == Way(sock)
           v == Way(sock')
<1>1. w \in [Orders -> Nat] /\ v \in [Orders -> Nat] /\ AsService'.sent = v
  BY RecordOf
<1>2. AsService = [host |-> host, prog |-> prog, status |-> status,
                   sent |-> w, news |-> News, contact |-> Up,
                   Srvr |-> Srvr, quit |-> quit]
  BY RecordOf
<1> SUFFICES v[c] <= w[c]
  OBVIOUS
<1> HIDE DEF w, v
<1>3. CASE UNCHANGED AsService
  BY <1>1, <1>2, <1>3
<1>4. CASE Service!Driver
  <2>1. AsService'.sent = w
    BY <1>2, <1>4 DEF Service!Driver, Service!Contact, Service!Read,
      Service!LoseContact, Service!Quit
  <2> QED
    BY <1>1, <2>1
<1>5. CASE Service!Instrument
  <2>1. CASE \E d \in Orders : AsService'.sent = [w EXCEPT ![d] = w[d] - 1]
    <3>1. PICK d \in Orders : v = [w EXCEPT ![d] = w[d] - 1]
      BY <1>1, <2>1
    <3>2. w[c] \in Nat
      BY <1>1
    <3>3. v[c] = IF c = d THEN w[c] - 1 ELSE w[c]
      BY <1>1, <3>1
    <3> QED
      BY <3>2, <3>3
  <2>2. CASE AsService'.sent \in {w, Service!NoOrders}
    BY <1>1, <2>2 DEF Service!NoOrders
  <2>3. CASE Service!Start \/ Service!Shutdown \/ Service!ForcedShutdown
    BY <1>2, <2>1, <2>3 DEF Service!Start, Service!Shutdown, Service!ForcedShutdown,
      Service!Executes
  <2>4. CASE Service!Report \/ Service!Ends \/ Service!Stops \/ Service!Boots
    BY <1>2, <2>2, <2>4 DEF Service!Report, Service!Ends, Service!Stops, Service!Boots
  <2> QED
    BY <1>5, <2>3, <2>4 DEF Service!Instrument
<1> QED
  BY <1>3, <1>4, <1>5 DEF Promised

\* An order's number on its way grows only when the operator gives it, by one.
NothingInvented ==
  [][\A c \in Orders : OnTheirWay(c)' > OnTheirWay(c)
       => Order(c) /\ OnTheirWay(c)' = OnTheirWay(c) + 1]_vars

\* POPS_client never sends an order again, or one that POPS_Cmd did not hand it:
\* not after a timeout, an end of file or a new connection, nor does a server
\* that comes up again find one.
THEOREM NoOrderInvented == Spec => NothingInvented
<1> DEFINE Invented == \A c \in Orders : OnTheirWay(c)' > OnTheirWay(c)
                         => Order(c) /\ OnTheirWay(c)' = OnTheirWay(c) + 1
<1>1. PopsInv /\ [Next]_vars => [Invented]_vars
  <2> SUFFICES ASSUME PopsInv, [Next]_vars, NEW c \in Orders,
                      OnTheirWay(c)' > OnTheirWay(c)
               PROVE  Order(c) /\ OnTheirWay(c)' = OnTheirWay(c) + 1
    OBVIOUS
  <2>1. /\ OnTheirWay(c) = Way(sock)[c] /\ OnTheirWay(c)' = Way(sock')[c]
        /\ Way(sock)[c] \in Nat /\ Way(sock')[c] \in Nat
    BY RecordOf DEF OnTheirWay, Unread, SrvP!Line, InLine, Way
  <2>2. PICK d \in Orders : Order(d)
    <3>1. ~(Way(sock')[c] <= Way(sock)[c])
      BY <2>1
    <3>2. ~Promised
      BY <3>1, NoneOfItsOwn
    <3> QED
      BY <3>2, OwnStep
  <2>3. Way(sock') = Way(sock) \/ Way(sock') = [Way(sock) EXCEPT ![d] = @ + 1]
    BY <2>2, ForwardUnseen DEF Order
  <2>4. Way(sock') # Way(sock)
    BY <2>1
  <2>5. Way(sock')[c] = IF c = d THEN Way(sock)[c] + 1 ELSE Way(sock)[c]
    BY <2>3, <2>4, RecordOf
  <2>6. c = d
    BY <2>1, <2>5
  <2> QED
    BY <2>1, <2>2, <2>5, <2>6
<1> QED
  BY <1>1, AlwaysPops, PTL DEF Spec, NothingInvented

-----------------------------------------------------------------------------
(* The data, for any samples: UserPkts_UDP, of which module Pops has no    *)
(* more than Stale.                                                        *)

\* Every variable has its type; both counts fit the byte.
DataType ==
  /\ pending \in BOOLEAN /\ POPS \in [Parsed -> Stamps \cup {NoStamp}]
  /\ Stale \in 0 .. ByteMax /\ age \in [Stamps -> 0 .. ByteMax]
  /\ row \in 0 .. 2 /\ latest \in Stamps \cup {NoStamp}

\* A whole datagram leaves nothing in the buffer, so the next one is parsed from
\* its beginning.
Clear == row > 0 => ~pending /\ latest \in Stamps

DataInv == DataType /\ Clear /\ StreamRecovers /\ StaleIsAge

\* protocol_input() and tm_sync() keep the invariant.
LEMMA DataStep ==
  ASSUME DataInv, [DataNext]_dataVars
  PROVE  DataInv'
<1> USE DEF DataInv, DataType, Clear
<1>0. ByteMax \in Nat \ {0}
  BY StaleAssumption
<1>1. ASSUME NEW kind \in Kinds, NEW stamp \in Stamps, Datagram(kind, stamp)
      PROVE  DataInv'
  <2>1. POPS' \in [Parsed -> Stamps \cup {NoStamp}]
    BY <1>1 DEF Datagram, Frame
  <2>2. pending' \in BOOLEAN /\ row' \in 0 .. 2 /\ latest' \in Stamps \cup {NoStamp}
    <3>1. pending' \in BOOLEAN
      <4>1. pending' \in PendingAfter(kind)
        BY <1>1 DEF Datagram
      <4>2. PendingAfter(kind) \subseteq BOOLEAN
        BY Zenon DEF PendingAfter
      <4> QED
        BY <4>1, <4>2, Zenon
    <3>2. row' \in 0 .. 2
      BY <1>1 DEF Datagram
    <3>3. latest' \in Stamps \cup {NoStamp}
      BY <1>1 DEF Datagram
    <3> QED
      BY <3>1, <3>2, <3>3
  <2>3. Stale' \in 0 .. ByteMax /\ age' \in [Stamps -> 0 .. ByteMax]
    BY <1>0, <1>1 DEF Datagram, StaleAfter
  <2>4. Clear'
    <3>1. kind = "whole" => pending' = FALSE /\ latest' = stamp
      BY <1>1 DEF Datagram, PendingAfter, HasSample
    <3>2. kind # "whole" => row' = 0
      BY <1>1 DEF Datagram
    <3> QED
      BY <3>1, <3>2
  <2>6. StaleIsAge'
    <3>1. \A s \in Stamps : age'[s] <= age[s]
      BY <1>0, <1>1 DEF Datagram
    <3>2. CASE Parses(kind)
      <4>1. POPS'["Flow"] = stamp /\ Stale' = 0 /\ age'[stamp] = 0
        BY <1>1, <3>2 DEF Datagram, Frame, Copied, Parsed, StaleAfter, Parses
      <4>2. row' = 2 => latest' = stamp
        BY <1>1 DEF Datagram
      <4> QED
        BY <4>1, <4>2 DEF StaleIsAge
    <3>3. CASE ~Parses(kind)
      <4>1. POPS' = POPS /\ Stale' = Stale
        BY <1>1, <3>3 DEF Datagram, StaleAfter
      <4>2. row' # 2
        BY <1>1, <3>3 DEF Datagram, Parses, HasSample
      <4>3. POPS["Flow"] # NoStamp => POPS["Flow"] \in Stamps
        BY DEF Parsed
      <4>4. POPS["Flow"] # NoStamp => age'[POPS["Flow"]] <= Stale
        BY <2>3, <3>1, <4>3 DEF StaleIsAge
      <4> QED
        BY <4>1, <4>2, <4>4 DEF StaleIsAge
    <3> QED
      BY <3>2, <3>3
  <2>5. StreamRecovers'
    <3> SUFFICES ASSUME row' = 2
                 PROVE  POPS'["Flow"] = latest' /\ POPS'["Time"] = latest'
      BY DEF StreamRecovers
    <3>1. kind = "whole" /\ row > 0 /\ latest' = stamp
      BY <1>1 DEF Datagram
    <3>2. Parses(kind)
      BY <3>1 DEF Parses, HasSample
    <3> QED
      BY <1>1, <3>1, <3>2 DEF Datagram, Frame, Copied, Parsed
  <2> QED
    BY <2>1, <2>2, <2>3, <2>4, <2>5, <2>6
<1>2. CASE Age
  <2>1. Stale' \in 0 .. ByteMax /\ age' \in [Stamps -> 0 .. ByteMax]
    BY <1>0, <1>2 DEF Age, Aged
  <2>2. StaleIsAge'
    <3>1. \A s \in Stamps : /\ age[s] <= Stale => age'[s] <= Stale'
                            /\ Stale = age[s] => Stale' = age'[s]
      BY <1>0, <1>2 DEF Age, Aged
    <3>2. POPS["Flow"] # NoStamp => POPS["Flow"] \in Stamps
      BY DEF Parsed
    <3>3. UNCHANGED <<POPS, row, latest>>
      BY <1>2 DEF Age
    <3>4. POPS["Flow"] # NoStamp => age'[POPS["Flow"]] <= Stale'
      <4> DEFINE f == POPS["Flow"]
      <4>1. f # NoStamp => f \in Stamps /\ age[f] <= Stale
        BY <3>2 DEF StaleIsAge
      <4> HIDE DEF f
      <4>2. f # NoStamp => age'[f] <= Stale'
        BY <3>1, <4>1, Zenon
      <4> QED
        BY <4>2 DEF f
    <3>5. row = 2 => Stale' = age'[latest]
      <4>1. row = 2 => latest \in Stamps /\ Stale = age[latest]
        BY DEF StaleIsAge
      <4> QED
        BY <3>1, <4>1, Zenon
    <3> QED
      BY <3>3, <3>4, <3>5 DEF StaleIsAge
  <2> QED
    BY <1>2, <2>1, <2>2 DEF Age, StreamRecovers
<1>3. CASE UNCHANGED dataVars
  BY <1>3 DEF dataVars, StreamRecovers, StaleIsAge
<1> QED
  BY <1>1, <1>2, <1>3 DEF DataNext

\* The frame starts empty and its buffer clear, and no datagram or sync changes
\* that Stale and the buffer agree with what was received.
THEOREM DataInvariant == DataSpec => []DataInv
<1>1. DataInit => DataInv
  <2> SUFFICES ASSUME DataInit PROVE DataInv
    OBVIOUS
  <2>1. /\ POPS \in [Parsed -> Stamps \cup {NoStamp}]
        /\ pending = FALSE /\ latest = NoStamp
    BY DEF DataInit
  <2>2. Stale = 0 /\ row = 0 /\ ByteMax \in Nat
    BY StaleAssumption DEF DataInit
  <2>5. POPS["Flow"] = NoStamp
    BY DEF DataInit, Parsed
  <2>3. DataType
    <3>1. Stale \in 0 .. ByteMax /\ row \in 0 .. 2
          /\ age \in [Stamps -> 0 .. ByteMax]
      BY <2>2 DEF DataInit
    <3>2. pending \in BOOLEAN /\ latest \in Stamps \cup {NoStamp}
      BY <2>1
    <3> QED
      BY <2>1, <3>1, <3>2, Zenon DEF DataType
  <2>4. Clear /\ StreamRecovers /\ StaleIsAge
    BY <2>2, <2>5 DEF Clear, StreamRecovers, StaleIsAge
  <2> QED
    BY <2>3, <2>4 DEF DataInv
<1> QED
  BY <1>1, DataStep, PTL DEF DataSpec

\* A datagram that does not parse, or is cut, costs UserPkts_UDP the next one at
\* most: the second whole datagram in a row is stored, its values and its time.
THEOREM SecondIsStored == DataSpec => []StreamRecovers
<1>1. DataInv => StreamRecovers
  BY DEF DataInv
<1> QED
  BY <1>1, DataInvariant, PTL

\* The values in the frame arrived no more than POPS.Stale frames ago, however
\* datagrams are cut, garbled or refused in between, also at the most a uint8_t
\* holds; and with whole datagrams in a row it is their age.
THEOREM StaleNeverYounger == DataSpec => []StaleIsAge
<1>1. DataInv => StaleIsAge
  BY DEF DataInv
<1> QED
  BY <1>1, DataInvariant, PTL
=============================================================================
