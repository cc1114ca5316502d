--------------------------- MODULE PopsSrvrProofs ---------------------------
(***************************************************************************)
(* Theorems of module PopsSrvr, for any number of connections and orders.  *)
(***************************************************************************)
EXTENDS PopsSrvr, SequenceTheorems, TLAPS

-----------------------------------------------------------------------------
(* What is on its way to the server.                                       *)

Socket ==
  [peer : BOOLEAN, srv : {"none", "open", "fin", "gone"},
   req : Seq(Commands), buf : Seq(Commands), rep : Seq(POPS_idle .. ErrorReply)]
Sockets == [Conns -> Socket]

\* The orders of connection i that were not obeyed yet.
Line(s, i) == s[i].buf \o s[i].req

Nowhere(s, c) == \A i \in Conns : \A m \in 1 .. Len(Line(s, i)) : Line(s, i)[m] # c

Once(s, c) ==
  \A i, j \in Conns : \A m \in 1 .. Len(Line(s, i)), n \in 1 .. Len(Line(s, j)) :
    Line(s, i)[m] = c /\ Line(s, j)[n] = c => i = j /\ m = n

\* What a step does to the lines: it leaves them, keeps or loses them, puts an
\* order behind one, or takes the first off one.
Same(s, t) == \A i \in Conns : Line(t, i) = Line(s, i)
Keeps(s, t) == \A i \in Conns : Line(t, i) = Line(s, i) \/ Line(t, i) = <<>>
Puts(s, t, i, c) ==
  /\ Line(t, i) = Append(Line(s, i), c)
  /\ \A j \in Conns \ {i} : Line(t, j) = Line(s, j)
Takes(s, t, i, c) ==
  /\ Line(s, i) # <<>> /\ Head(Line(s, i)) = c /\ Line(t, i) = Tail(Line(s, i))
  /\ \A j \in Conns \ {i} : Line(t, j) = Line(s, j)

\* A line is a sequence of commands.
LEMMA LineType ==
  ASSUME NEW s \in Sockets, NEW i \in Conns
  PROVE  Line(s, i) \in Seq(Commands)
BY DEF Sockets, Socket, Line

\* Orders that are lost are not obeyed.
LEMMA Kept ==
  ASSUME NEW s \in Sockets, NEW t \in Sockets, Keeps(s, t), NEW c
  PROVE  (Nowhere(s, c) => Nowhere(t, c)) /\ (Once(s, c) => Once(t, c))
<1>1. \A i \in Conns : Line(t, i) = Line(s, i) \/ Len(Line(t, i)) = 0
  BY DEF Keeps
<1> QED
  BY <1>1 DEF Nowhere, Once

\* An order that is sent is behind all others on its connection.
LEMMA Put ==
  ASSUME NEW s \in Sockets, NEW t \in Sockets, NEW i \in Conns,
         NEW x \in Commands, Puts(s, t, i, x), NEW c
  PROVE  /\ x # c => (Nowhere(s, c) => Nowhere(t, c)) /\ (Once(s, c) => Once(t, c))
         /\ Nowhere(s, c) => Once(t, c)
<1> DEFINE k == Len(Line(s, i))
<1>1. /\ k \in Nat /\ Len(Line(t, i)) = k + 1 /\ Line(t, i)[k + 1] = x
      /\ \A m \in 1 .. k : Line(t, i)[m] = Line(s, i)[m]
  BY LineType DEF Puts
<1>2. \A j \in Conns \ {i} : Line(t, j) = Line(s, j)
  BY DEF Puts
<1> HIDE DEF k
<1>3. \A m \in 1 .. Len(Line(t, i)) : m \in 1 .. k \/ m = k + 1
  BY <1>1
<1>4. k = Len(Line(s, i))
  BY DEF k
<1>5. ASSUME x # c, Nowhere(s, c) PROVE Nowhere(t, c)
  BY <1>1, <1>2, <1>3, <1>4, <1>5 DEF Nowhere
<1>6. ASSUME x # c, Once(s, c) PROVE Once(t, c)
  BY <1>1, <1>2, <1>3, <1>4, <1>6 DEF Once
<1>7. ASSUME Nowhere(s, c) PROVE Once(t, c)
  BY <1>1, <1>2, <1>3, <1>4, <1>7 DEF Nowhere, Once
<1> QED
  BY <1>5, <1>6, <1>7

\* An order that is obeyed was the first on its connection, and if it was the
\* only one it is nowhere now.
LEMMA Taken ==
  ASSUME NEW s \in Sockets, NEW t \in Sockets, NEW i \in Conns,
         NEW x \in Commands, Takes(s, t, i, x), NEW c
  PROVE  /\ Nowhere(s, c) => Nowhere(t, c) /\ x # c
         /\ Once(s, c) => Once(t, c)
         /\ x = c /\ Once(s, c) => Nowhere(t, c)
<1> DEFINE k == Len(Line(t, i))
<1>1. /\ k \in Nat /\ Len(Line(s, i)) = k + 1 /\ Line(s, i)[1] = x
      /\ \A m \in 1 .. k : Line(t, i)[m] = Line(s, i)[m + 1]
  BY LineType, HeadTailProperties DEF Takes
<1>2. \A j \in Conns \ {i} : Line(t, j) = Line(s, j)
  BY DEF Takes
<1> HIDE DEF k
<1>3. k = Len(Line(t, i))
  BY DEF k
<1>4. \A m \in 1 .. k : m + 1 \in 1 .. Len(Line(s, i)) /\ m + 1 # 1
  BY <1>1
<1>5. 1 \in 1 .. Len(Line(s, i))
  BY <1>1
<1>6. ASSUME Nowhere(s, c) PROVE Nowhere(t, c) /\ x # c
  BY <1>1, <1>2, <1>3, <1>4, <1>5, <1>6 DEF Nowhere
<1>7. ASSUME Once(s, c) PROVE Once(t, c)
  <2> SUFFICES ASSUME NEW j \in Conns, NEW l \in Conns,
                      NEW m \in 1 .. Len(Line(t, j)), NEW n \in 1 .. Len(Line(t, l)),
                      Line(t, j)[m] = c, Line(t, l)[n] = c
               PROVE  j = l /\ m = n
    BY DEF Once
  <2> DEFINE mm == IF j = i THEN m + 1 ELSE m
             nn == IF l = i THEN n + 1 ELSE n
  <2>1. mm \in 1 .. Len(Line(s, j)) /\ Line(s, j)[mm] = c
    BY <1>1, <1>2, <1>3, <1>4
  <2>2. nn \in 1 .. Len(Line(s, l)) /\ Line(s, l)[nn] = c
    BY <1>1, <1>2, <1>3, <1>4
  <2>3. j = l /\ mm = nn
    BY <1>7, <2>1, <2>2 DEF Once
  <2> QED
    BY <2>3, LineType
<1>8. ASSUME x = c, Once(s, c) PROVE Nowhere(t, c)
  <2> SUFFICES ASSUME NEW j \in Conns, NEW m \in 1 .. Len(Line(t, j)), Line(t, j)[m] = c
               PROVE  FALSE
    BY DEF Nowhere
  <2>1. CASE j = i
    <3>1. m \in 1 .. k
      BY <1>3, <2>1
    <3>2. /\ m + 1 \in 1 .. Len(Line(s, i)) /\ m + 1 # 1
          /\ Line(s, i)[m + 1] = c
      BY <1>1, <1>4, <2>1, <3>1
    <3> QED
      BY <1>1, <1>5, <1>8, <3>2 DEF Once
  <2>2. CASE j # i
    BY <1>1, <1>2, <1>5, <1>8, <2>2 DEF Once
  <2> QED
    BY <2>1, <2>2
<1> QED
  BY <1>6, <1>7, <1>8

-----------------------------------------------------------------------------
(* The steps.                                                              *)

\* An end without a server holds nothing, and the server serves an open one.
EndsAgree ==
  \A i \in Conns :
    /\ sock[i].srv # "open" => sock[i].req = <<>> /\ sock[i].buf = <<>>
    /\ serving = i => sock[i].srv = "open"

Talk == sock \in Sockets /\ serving \in Conns \cup {NoConn} /\ EndsAgree
MachineType ==
  /\ host \in {"up", "halting", "off"} /\ prog \in {"off", "run"}
  /\ status \in {POPS_idle, POPS_active, POPS_shutdown}
  /\ sd \in BOOLEAN /\ eights \in Nat
PastType == askedE \in Nat /\ askedF \in Nat

\* What is left of a sequence when its front is read.
LEMMA Rest ==
  ASSUME NEW R, NEW v \in Seq(R), NEW k \in 1 .. Len(v)
  PROVE  SubSeq(v, k + 1, Len(v)) \in Seq(R)
<1>1. Len(v) \in Nat /\ \A j \in 1 .. Len(v) : v[j] \in R
  BY ElementOfSeq
<1>2. \A j \in k + 1 .. Len(v) : v[j] \in R
  BY <1>1
<1> QED
  BY <1>1, <1>2, SubSeqProperties

\* A sequence with one more element.
LEMMA More ==
  ASSUME NEW R, NEW v \in Seq(R), NEW x \in R
  PROVE  Append(v, x) \in Seq(R)
OBVIOUS

\* A connection that is free holds nothing.
LEMMA FreeIs ==
  /\ Free \in Socket /\ Free.req = <<>> /\ Free.buf = <<>> /\ Free.srv = "none"
  /\ Free.buf \o Free.req = <<>>
  /\ [Free EXCEPT !.peer = TRUE, !.srv = "open"] \in Socket
  /\ [Free EXCEPT !.peer = TRUE, !.srv = "open"].buf = <<>>
  /\ [Free EXCEPT !.peer = TRUE, !.srv = "open"].req = <<>>
  /\ [Free EXCEPT !.peer = TRUE, !.srv = "open"].srv = "open"
<1> DEFINE none == <<>>
<1>1. none \in Seq(Commands) /\ none \in Seq(POPS_idle .. ErrorReply) /\ none \o none = none
  OBVIOUS
<1> HIDE DEF none
<1>2. Free = [peer |-> FALSE, srv |-> "none", req |-> none, buf |-> none, rep |-> none]
  BY DEF Free, none
<1>3. Free \in Socket /\ Free.req = none /\ Free.buf = none /\ Free.srv = "none"
  BY <1>1, <1>2 DEF Socket
<1>4. /\ [Free EXCEPT !.peer = TRUE, !.srv = "open"] \in Socket
      /\ [Free EXCEPT !.peer = TRUE, !.srv = "open"].buf = none
      /\ [Free EXCEPT !.peer = TRUE, !.srv = "open"].req = none
      /\ [Free EXCEPT !.peer = TRUE, !.srv = "open"].srv = "open"
  BY <1>1, <1>2 DEF Socket
<1> QED
  BY <1>1, <1>3, <1>4 DEF none

\* One connection becomes r, the server serving i or nobody.
LEMMA Changes ==
  ASSUME Talk, NEW i \in Conns, NEW r \in Socket,
         sock' = [sock EXCEPT ![i] = r],
         r.srv # "open" => r.req = <<>> /\ r.buf = <<>>,
         serving' \in {serving, i, NoConn}, serving' = i => r.srv = "open"
  PROVE  /\ Talk' /\ Line(sock', i) = r.buf \o r.req
         /\ \A j \in Conns \ {i} : Line(sock', j) = Line(sock, j)
<1>1. /\ sock' \in Sockets /\ sock'[i] = r
      /\ \A j \in Conns \ {i} : sock'[j] = sock[j] /\ Line(sock', j) = Line(sock, j)
      /\ Line(sock', i) = r.buf \o r.req
  BY DEF Talk, Sockets, Line
<1>2. EndsAgree'
  <2> SUFFICES ASSUME NEW j \in Conns
               PROVE  /\ sock'[j].srv # "open" => sock'[j].req = <<>> /\ sock'[j].buf = <<>>
                      /\ serving' = j => sock'[j].srv = "open"
    BY DEF EndsAgree
  <2>1. CASE j = i
    BY <1>1, <2>1
  <2>2. CASE j # i
    <3>1. sock'[j] = sock[j] /\ (serving' = j => serving = j)
      BY <1>1, <2>2, PopsSrvrAssumption
    <3> QED
      BY <3>1 DEF Talk, EndsAgree
  <2> QED
    BY <2>1, <2>2
<1> QED
  BY <1>1, <1>2 DEF Talk

\* An order sent goes behind those in the buffer.
LEMMA LineOfAppend ==
  ASSUME NEW b \in Seq(Commands), NEW q \in Seq(Commands), NEW c \in Commands
  PROVE  Append(q, c) \in Seq(Commands) /\ b \o Append(q, c) = Append(b \o q, c)
<1> DEFINE one == <<c>>
<1>1. one \in Seq(Commands) /\ b \o q \in Seq(Commands)
  OBVIOUS
<1>2. Append(q, c) = q \o one /\ Append(b \o q, c) = (b \o q) \o one
  BY <1>1, AppendIsConcat
<1> HIDE DEF one
<1>3. (b \o q) \o one = b \o (q \o one)
  BY <1>1, ConcatAssociative
<1>4. Append(q, c) \in Seq(Commands)
  OBVIOUS
<1> QED
  BY <1>2, <1>3, <1>4

\* The first order in the buffer is the first of the line.
LEMMA HeadOfLine ==
  ASSUME NEW b \in Seq(Commands), NEW q \in Seq(Commands), b # <<>>
  PROVE  b \o q # <<>> /\ Head(b \o q) = Head(b) /\ Tail(b) \o q = Tail(b \o q)
<1> DEFINE u == b \o q
<1>1. /\ u \in Seq(Commands) /\ Len(u) = Len(b) + Len(q)
      /\ Len(b) \in Nat \ {0} /\ Len(q) \in Nat
      /\ \A j \in 1 .. Len(b) + Len(q) : u[j] =
           IF j <= Len(b) THEN b[j] ELSE q[j - Len(b)]
  BY ConcatProperties
<1> HIDE DEF u
<1>2. u # <<>> /\ Head(u) = u[1] /\ Head(b) = b[1] /\ u[1] = b[1]
  BY <1>1
<1>3. /\ Tail(b) \in Seq(Commands) /\ Len(Tail(b)) = Len(b) - 1
      /\ \A j \in 1 .. Len(b) - 1 : Tail(b)[j] = b[j + 1]
  BY HeadTailProperties
<1>4. /\ Tail(u) \in Seq(Commands) /\ Len(Tail(u)) = Len(u) - 1
      /\ \A j \in 1 .. Len(u) - 1 : Tail(u)[j] = u[j + 1]
  BY <1>1, <1>2, HeadTailProperties
<1> DEFINE t == Tail(b)
           v == t \o q
<1>5. t \in Seq(Commands) /\ Len(t) = Len(b) - 1
      /\ \A j \in 1 .. Len(b) - 1 : t[j] = b[j + 1]
  BY <1>3
<1> HIDE DEF t
<1>6. /\ v \in Seq(Commands) /\ Len(v) = Len(t) + Len(q)
      /\ \A j \in 1 .. Len(t) + Len(q) : v[j] =
           IF j <= Len(t) THEN t[j] ELSE q[j - Len(t)]
  BY <1>5, ConcatProperties
<1> HIDE DEF v
<1>7. ASSUME NEW j \in 1 .. Len(v) PROVE v[j] = Tail(u)[j]
  <2>1. j \in 1 .. Len(u) - 1 /\ j + 1 \in 1 .. Len(b) + Len(q)
        /\ j \in 1 .. Len(t) + Len(q)
    BY <1>1, <1>5, <1>6
  <2>2. Tail(u)[j] = u[j + 1]
    BY <1>4, <2>1
  <2>3. CASE j <= Len(t)
    <3>1. v[j] = b[j + 1]
      BY <1>5, <1>6, <2>1, <2>3
    <3>2. j + 1 <= Len(b)
      BY <1>5, <2>3
    <3> QED
      BY <1>1, <2>1, <2>2, <3>1, <3>2
  <2>4. CASE j > Len(t)
    <3>1. v[j] = q[j - Len(t)]
      BY <1>5, <1>6, <2>1, <2>4
    <3>2. ~ (j + 1 <= Len(b)) /\ (j + 1) - Len(b) = j - Len(t)
      BY <1>1, <1>5, <2>4
    <3>3. u[j + 1] = q[(j + 1) - Len(b)]
      BY <1>1, <2>1, <3>2
    <3> QED
      BY <2>2, <3>1, <3>2, <3>3
  <2>5. j <= Len(t) \/ j > Len(t)
    BY <1>1, <1>5
  <2> QED
    BY <2>3, <2>4, <2>5
<1>8. v = Tail(u)
  <2>1. Len(v) = Len(Tail(u))
    BY <1>1, <1>4, <1>5, <1>6
  <2> QED
    BY <1>4, <1>6, <1>7, <2>1, SeqEqual
<1> QED
  BY <1>2, <1>8 DEF t, u, v

\* What each client does.
LEMMA ClientStep ==
  ASSUME Talk, NEW i \in Conns, Client(i)
  PROVE  Talk' /\ (Same(sock, sock')
                     \/ \E c \in Commands : Send(i, c) /\ Puts(sock, sock', i, c))
<1>0. /\ sock[i] \in Socket /\ sock[i].peer \in BOOLEAN
      /\ sock[i].srv \in {"none", "open", "fin", "gone"}
      /\ sock[i].req \in Seq(Commands) /\ sock[i].buf \in Seq(Commands)
      /\ sock[i].rep \in Seq(POPS_idle .. ErrorReply)
      /\ Line(sock, i) = sock[i].buf \o sock[i].req
      /\ sock[i].srv # "open" => sock[i].req = <<>> /\ sock[i].buf = <<>>
  BY DEF Talk, EndsAgree, Sockets, Socket, Line
<1>1. CASE Accept(i)
  <2> DEFINE r == [Free EXCEPT !.peer = TRUE, !.srv = "open"]
  <2>1. sock' = [sock EXCEPT ![i] = r] /\ serving' = serving
    BY <1>1 DEF Accept
  <2>2. r \in Socket /\ r.srv = "open" /\ r.buf \o r.req = <<>>
    BY FreeIs
  <2>3. Line(sock, i) = <<>>
    BY <1>1, FreeIs DEF Accept, Line
  <2> HIDE DEF r
  <2>4. Talk' /\ Line(sock', i) = r.buf \o r.req
        /\ \A j \in Conns \ {i} : Line(sock', j) = Line(sock, j)
    BY <2>1, <2>2, Changes
  <2> QED
    BY <2>2, <2>3, <2>4 DEF Same
<1>2. CASE Hangup(i)
  <2> DEFINE r == HungUp(i)
  <2>1. sock' = [sock EXCEPT ![i] = r] /\ serving' = serving
    BY <1>2 DEF Hangup
  <2>2. CASE sock[i].srv = "open"
    <3> DEFINE none == <<>>
    <3>1. none \in Seq(POPS_idle .. ErrorReply)
      OBVIOUS
    <3>2. r = [sock[i] EXCEPT !.peer = FALSE, !.rep = none]
      BY <2>2 DEF HungUp
    <3> HIDE DEF r, none
    <3>3. r \in Socket /\ r.srv = "open" /\ r.buf = sock[i].buf /\ r.req = sock[i].req
      BY <1>0, <2>2, <3>1, <3>2 DEF Socket
    <3>4. Talk' /\ Line(sock', i) = r.buf \o r.req
          /\ \A j \in Conns \ {i} : Line(sock', j) = Line(sock, j)
      BY <2>1, <3>3, Changes
    <3> QED
      BY <1>0, <3>3, <3>4 DEF Same
  <2>3. CASE sock[i].srv # "open"
    <3>1. r = Free
      BY <2>3 DEF HungUp
    <3> HIDE DEF r
    <3>2. r \in Socket /\ r.req = <<>> /\ r.buf = <<>> /\ r.buf \o r.req = <<>>
          /\ r.srv = "none"
      BY <3>1, FreeIs
    <3>3. serving # i
      BY <2>3 DEF Talk, EndsAgree
    <3>4. Talk' /\ Line(sock', i) = r.buf \o r.req
          /\ \A j \in Conns \ {i} : Line(sock', j) = Line(sock, j)
      BY <2>1, <3>2, <3>3, Changes
    <3>5. Line(sock, i) = <<>>
      BY <1>0, <2>3, FreeIs DEF Line
    <3> QED
      BY <3>2, <3>4, <3>5 DEF Same
  <2> QED
    BY <2>2, <2>3
<1>3. ASSUME NEW c \in Commands, Send(i, c)
      PROVE  Talk' /\ (Same(sock, sock') \/ Puts(sock, sock', i, c))
  <2>1. CASE sock[i].srv = "open"
    <3> DEFINE r == [sock[i] EXCEPT !.req = Append(@, c)]
    <3>1. sock' = [sock EXCEPT ![i] = r] /\ serving' = serving
      BY <1>3, <2>1 DEF Send, Sent, Talk, Sockets
    <3> DEFINE q == Append(sock[i].req, c)
    <3>5. q \in Seq(Commands) /\ sock[i].buf \o q = Append(sock[i].buf \o sock[i].req, c)
      BY <1>0, LineOfAppend
    <3> HIDE DEF q
    <3>2. r \in Socket /\ r.srv = "open" /\ r.buf = sock[i].buf /\ r.req = q
      BY <1>0, <2>1, <3>5 DEF Socket, q
    <3> HIDE DEF r
    <3>3. r.buf \o r.req = Append(sock[i].buf \o sock[i].req, c)
      BY <3>2, <3>5
    <3>4. Talk' /\ Line(sock', i) = r.buf \o r.req
          /\ \A j \in Conns \ {i} : Line(sock', j) = Line(sock, j)
      BY <2>1, <3>1, <3>2, Changes
    <3> QED
      BY <1>0, <3>3, <3>4 DEF Puts
  <2>2. CASE sock[i].srv # "open"
    <3>1. sock' = sock /\ serving' = serving
      BY <1>3, <2>2 DEF Send, Sent, Talk, Sockets, Socket
    <3> QED
      BY <3>1 DEF Talk, EndsAgree, Same, Line
  <2> QED
    BY <2>1, <2>2
<1>4. ASSUME NEW k \in 1 .. Len(sock[i].rep), TakeReplies(i, k)
      PROVE  Talk' /\ Same(sock, sock')
  <2> DEFINE r == [sock[i] EXCEPT !.rep = SubSeq(@, k + 1, Len(@))]
  <2>1. sock' = [sock EXCEPT ![i] = r] /\ serving' = serving
    BY <1>4 DEF TakeReplies, Talk, Sockets
  <2>2. SubSeq(sock[i].rep, k + 1, Len(sock[i].rep)) \in Seq(POPS_idle .. ErrorReply)
    BY <1>0, Rest
  <2>3. r \in Socket /\ r.srv = sock[i].srv /\ r.buf = sock[i].buf /\ r.req = sock[i].req
    BY <1>0, <2>2 DEF Socket
  <2> HIDE DEF r
  <2>4. serving = i => r.srv = "open"
    BY <2>3 DEF Talk, EndsAgree
  <2>5. Talk' /\ Line(sock', i) = r.buf \o r.req
        /\ \A j \in Conns \ {i} : Line(sock', j) = Line(sock, j)
    BY <1>0, <2>1, <2>3, <2>4, Changes
  <2> QED
    BY <1>0, <2>3, <2>5 DEF Same
<1> QED
  BY <1>1, <1>2, <1>3, <1>4 DEF Client

\* What the library reads leaves the lines as they are, and what it forgets has
\* none.
LEMMA ReadStep ==
  ASSUME Talk, NEW i \in Conns, Read(i) \/ Reap(i)
  PROVE  /\ Talk' /\ Keeps(sock, sock')
         /\ Read(i) => Same(sock, sock')
         /\ Reap(i) => \A j \in Conns \ {i} : Line(sock', j) = Line(sock, j)
         /\ Reap(i) => Line(sock', i) = <<>>
<1>0. /\ sock[i] \in Socket
      /\ sock[i].req \in Seq(Commands) /\ sock[i].buf \in Seq(Commands)
      /\ Line(sock, i) = sock[i].buf \o sock[i].req
  BY DEF Talk, Sockets, Socket, Line
<1>1. CASE Read(i)
  <2>1. PICK k \in 1 .. Len(sock[i].req) :
          sock' = [sock EXCEPT ![i].buf = @ \o SubSeq(sock[i].req, 1, k),
                               ![i].req = SubSeq(@, k + 1, Len(@))]
    BY <1>1 DEF Read
  <2> DEFINE q == sock[i].req
             front == SubSeq(q, 1, k)
             back == SubSeq(q, k + 1, Len(q))
             b == sock[i].buf \o front
  <2>2. q \in Seq(Commands) /\ Len(q) \in Nat /\ k \in 1 .. Len(q)
    BY <1>0
  <2> HIDE DEF q
  <2>3. \A j \in 1 .. Len(q) : q[j] \in Commands
    BY <2>2, ElementOfSeq
  <2>4. front \in Seq(Commands) /\ back \in Seq(Commands)
    BY <2>2, <2>3, SubSeqProperties
  <2>5. front \o back = q
    <3>1. front \o back = SubSeq(q, 1, Len(q))
      BY <2>2, ConcatAdjacentSubSeq
    <3> QED
      BY <2>2, <3>1, SubSeqFull
  <2>6. b \in Seq(Commands)
    BY <1>0, <2>4
  <2>7. b \o back = sock[i].buf \o q
    <3> HIDE DEF front, back
    <3> DEFINE u == sock[i].buf
    <3>1. u \in Seq(Commands)
      BY <1>0
    <3> HIDE DEF u
    <3>2. (u \o front) \o back = u \o (front \o back)
      BY <2>4, <3>1, ConcatAssociative
    <3> QED
      BY <2>5, <3>2 DEF u
  <2>8. sock' = [sock EXCEPT ![i] = [sock[i] EXCEPT !.buf = b, !.req = back]]
    BY <2>1 DEF q, Talk, Sockets
  <2> HIDE DEF b, front, back
  <2> DEFINE r == [sock[i] EXCEPT !.buf = b, !.req = back]
  <2>9. r \in Socket /\ r.srv = sock[i].srv /\ r.buf = b /\ r.req = back
    BY <1>0, <2>4, <2>6 DEF Socket
  <2> HIDE DEF r
  <2>10. serving' = i /\ r.srv = "open"
    BY <1>1, <2>9 DEF Read
  <2>11. sock' = [sock EXCEPT ![i] = r]
    BY <2>8 DEF r
  <2>12. Talk' /\ Line(sock', i) = r.buf \o r.req
         /\ \A j \in Conns \ {i} : Line(sock', j) = Line(sock, j)
    BY <2>9, <2>10, <2>11, Changes
  <2> QED
    BY <1>0, <1>1, <2>7, <2>9, <2>10, <2>12, PopsSrvrAssumption
       DEF Keeps, Same, q, Read, Reap, Idle
<1>2. CASE Reap(i)
  <2> DEFINE r == Free
  <2>1. sock' = [sock EXCEPT ![i] = r] /\ serving' = serving /\ serving # i
    BY <1>2, PopsSrvrAssumption DEF Reap, Idle
  <2>2. r \in Socket /\ r.req = <<>> /\ r.buf = <<>> /\ r.buf \o r.req = <<>>
    BY FreeIs
  <2> HIDE DEF r
  <2>3. Talk' /\ Line(sock', i) = r.buf \o r.req
        /\ \A j \in Conns \ {i} : Line(sock', j) = Line(sock, j)
    BY <2>1, <2>2, Changes
  <2> QED
    BY <1>2, <2>1, <2>2, <2>3, PopsSrvrAssumption DEF Keeps, Read, Reap, Idle
<1> QED
  BY <1>1, <1>2

\* A reply, or none, to connection i, whose buffer becomes b.
Answers(i, b) ==
  \/ sock' = [sock EXCEPT ![i].buf = b]
  \/ \E r \in POPS_idle .. ErrorReply :
       sock' = Replied(i, [sock EXCEPT ![i].buf = b], r)

\* A turn of the loop of protocol_input() takes the first order off the line of
\* the connection it serves.
LEMMA TurnStep ==
  ASSUME Talk, NEW c, Turn(c), Answers(serving, Tail(sock[serving].buf)),
         serving' \in {serving, NoConn}
  PROVE  Talk' /\ c \in Commands /\ Takes(sock, sock', serving, c)
<1> DEFINE i == serving
           b == Tail(sock[i].buf)
<1>0. /\ i \in Conns /\ sock[i] \in Socket /\ sock[i].srv = "open"
      /\ sock[i].peer \in BOOLEAN
      /\ sock[i].req \in Seq(Commands) /\ sock[i].buf \in Seq(Commands)
      /\ sock[i].rep \in Seq(POPS_idle .. ErrorReply)
      /\ Line(sock, i) = sock[i].buf \o sock[i].req
      /\ sock[i].buf # <<>> /\ Head(sock[i].buf) = c
  BY DEF Turn, Talk, EndsAgree, Sockets, Socket, Line
<1>1. c \in Commands /\ b \in Seq(Commands)
  BY <1>0
<1>2. /\ Line(sock, i) # <<>> /\ Head(Line(sock, i)) = c
      /\ b \o sock[i].req = Tail(Line(sock, i))
  <2> DEFINE B == sock[i].buf
             Q == sock[i].req
  <2>1. B \in Seq(Commands) /\ Q \in Seq(Commands) /\ B # <<>> /\ Head(B) = c
    BY <1>0
  <2> HIDE DEF B, Q
  <2>2. B \o Q # <<>> /\ Head(B \o Q) = c /\ Tail(B) \o Q = Tail(B \o Q)
    BY <2>1, HeadOfLine
  <2> QED
    BY <1>0, <2>2 DEF B, Q
<1> HIDE DEF b
<1>3. PICK r \in Socket : /\ sock' = [sock EXCEPT ![i] = r]
                          /\ r.srv = "open" /\ r.buf = b /\ r.req = sock[i].req
  <2>1. CASE sock' = [sock EXCEPT ![i].buf = b]
    <3> DEFINE r == [sock[i] EXCEPT !.buf = b]
    <3>1. sock' = [sock EXCEPT ![i] = r]
      BY <2>1 DEF Talk, Sockets
    <3>2. r \in Socket /\ r.srv = "open" /\ r.buf = b /\ r.req = sock[i].req
      BY <1>0, <1>1 DEF Socket
    <3> QED
      BY <3>1, <3>2
  <2>2. CASE \E x \in POPS_idle .. ErrorReply :
               sock' = Replied(i, [sock EXCEPT ![i].buf = b], x)
    <3>1. PICK x \in POPS_idle .. ErrorReply :
               sock' = Replied(i, [sock EXCEPT ![i].buf = b], x)
      BY <2>2
    <3> DEFINE reply == IF sock[i].peer THEN Append(sock[i].rep, x) ELSE sock[i].rep
               r == [sock[i] EXCEPT !.buf = b, !.rep = reply]
    <3>2. reply \in Seq(POPS_idle .. ErrorReply)
      BY <1>0, More
    <3>3. sock' = [sock EXCEPT ![i] = r]
      BY <1>0, <3>1 DEF Replied, Talk, Sockets, Socket
    <3> HIDE DEF reply
    <3>4. r \in Socket /\ r.srv = "open" /\ r.buf = b /\ r.req = sock[i].req
      BY <1>0, <1>1, <3>2 DEF Socket
    <3> QED
      BY <3>3, <3>4
  <2> QED
    BY <2>1, <2>2 DEF Answers, b
<1>4. Talk' /\ Line(sock', i) = r.buf \o r.req
      /\ \A j \in Conns \ {i} : Line(sock', j) = Line(sock, j)
  BY <1>0, <1>3, Changes
<1> QED
  BY <1>0, <1>1, <1>2, <1>3, <1>4 DEF Takes

\* All orders on their way are lost when the computer stops.
LEMMA StopStep ==
  ASSUME Talk, NEW end \in {"fin", "gone"}, Stopped(end)
  PROVE  Talk' /\ Keeps(sock, sock') /\ \A i \in Conns : Line(sock', i) = <<>>
<1> DEFINE none == <<>>
<1>1. none \in Seq(Commands) /\ none \o none = none
  OBVIOUS
<1> HIDE DEF none
<1>2. sock' = [i \in Conns |->
                IF sock[i].peer
                THEN [sock[i] EXCEPT !.req = none, !.buf = none, !.srv =
                        IF @ = "open" THEN end ELSE @]
                ELSE Free]
  BY DEF Stopped, none
<1>3. /\ Free \in Socket /\ Free.req = none /\ Free.buf = none
      /\ serving' = NoConn
  BY FreeIs DEF none, Stopped
<1>4. ASSUME NEW i \in Conns
      PROVE  sock'[i] \in Socket /\ sock'[i].req = none /\ sock'[i].buf = none
  <2>1. sock[i] \in Socket
    BY DEF Talk, Sockets
  <2>2. CASE sock[i].peer
    <3> DEFINE e == IF sock[i].srv = "open" THEN end ELSE sock[i].srv
    <3>1. e \in {"none", "open", "fin", "gone"}
      BY <2>1 DEF Socket
    <3>2. sock'[i] = [sock[i] EXCEPT !.req = none, !.buf = none, !.srv = e]
      BY <1>2, <2>1, <2>2 DEF Socket
    <3> HIDE DEF e
    <3> QED
      BY <1>1, <2>1, <3>1, <3>2 DEF Socket
  <2>3. CASE ~sock[i].peer
    BY <1>2, <1>3, <2>3
  <2> QED
    BY <2>2, <2>3
<1>5. sock' \in Sockets
  BY <1>2, <1>4 DEF Sockets
<1>6. EndsAgree'
  BY <1>3, <1>4, PopsSrvrAssumption DEF EndsAgree, none
<1>7. Keeps(sock, sock') /\ \A i \in Conns : Line(sock', i) = <<>>
  BY <1>1, <1>4 DEF Keeps, Line, none
<1> QED
  BY <1>3, <1>5, <1>6, <1>7 DEF Talk

\* The reply at the end changes no line.
LEMMA ReplyStep ==
  ASSUME Talk, MachineType, Reply
  PROVE  Talk' /\ Same(sock, sock')
<1> DEFINE i == serving
           reply == IF sock[i].peer THEN Append(sock[i].rep, status) ELSE sock[i].rep
           r == [sock[i] EXCEPT !.rep = reply]
<1>1. /\ i \in Conns /\ sock[i] \in Socket /\ sock[i].srv = "open"
      /\ sock[i].rep \in Seq(POPS_idle .. ErrorReply)
      /\ Line(sock, i) = sock[i].buf \o sock[i].req
  BY DEF Reply, Talk, EndsAgree, Sockets, Socket, Line
<1>2. status \in POPS_idle .. ErrorReply
  BY DEF MachineType, POPS_idle, POPS_active, POPS_shutdown, ErrorReply
<1>3. reply \in Seq(POPS_idle .. ErrorReply)
  BY <1>1, <1>2, More
<1>4. sock' = [sock EXCEPT ![i] = r]
  BY <1>1 DEF Reply, Replied, Talk, Sockets, Socket
<1> HIDE DEF reply
<1>5. r \in Socket /\ r.srv = "open" /\ r.buf = sock[i].buf /\ r.req = sock[i].req
  BY <1>1, <1>3 DEF Socket
<1>6. serving' = NoConn
  BY DEF Reply
<1> HIDE DEF r
<1>7. Talk' /\ Line(sock', i) = r.buf \o r.req
      /\ \A j \in Conns \ {i} : Line(sock', j) = Line(sock, j)
  BY <1>1, <1>4, <1>5, <1>6, Changes
<1> QED
  BY <1>1, <1>5, <1>7 DEF Same

-----------------------------------------------------------------------------
(* The invariant.                                                          *)

\* The orders E and F that can still be obeyed were asked for.  Software that
\* runs under a status other than POPS_active was told to stop by an order E,
\* so that without an F the next one is the second.
Asked ==
  /\ askedF = 0 => Nowhere(sock, "F")
  /\ askedE = 0 => Nowhere(sock, "E")
  /\ askedE <= 1 => Once(sock, "E")
  /\ host = "off" => prog = "off"
  /\ prog = "run" /\ status # POPS_active /\ askedF = 0 /\ askedE <= 1 =>
       askedE = 1 /\ Nowhere(sock, "E")

SrvrInv == Talk /\ MachineType /\ PastType /\ Asked

\* A step that puts no order on its way and tells the software nothing.
LEMMA AskedKept ==
  ASSUME PastType, PastType', Asked,
         Nowhere(sock, "E") => Nowhere(sock', "E"),
         Nowhere(sock, "F") => Nowhere(sock', "F"),
         Once(sock, "E") => Once(sock', "E"),
         askedE' >= askedE, askedF' >= askedF,
         host' = "off" => prog' = "off",
         prog' = "run" /\ status' # POPS_active => prog = "run" /\ status # POPS_active
  PROVE  Asked'
BY DEF Asked, PastType

\* The server starts without connections and the software off.
LEMMA InitInv == Init => SrvrInv
<1> SUFFICES ASSUME Init PROVE SrvrInv
  OBVIOUS
<1>1. Free \in Socket /\ Free.srv = "none" /\ Free.req = <<>> /\ Free.buf = <<>>
      /\ Free.buf \o Free.req = <<>>
  BY FreeIs
<1>2. sock \in Sockets /\ \A i \in Conns : sock[i] = Free /\ Line(sock, i) = <<>>
  BY <1>1 DEF Init, Sockets, Line
<1>3. Talk
  BY <1>1, <1>2, PopsSrvrAssumption DEF Talk, EndsAgree, Init
<1>4. Nowhere(sock, "E") /\ Nowhere(sock, "F") /\ Once(sock, "E")
  <2>1. \A i \in Conns : 1 .. Len(Line(sock, i)) = {}
    BY <1>2
  <2> QED
    BY <2>1 DEF Nowhere, Once
<1> QED
  BY <1>3, <1>4 DEF SrvrInv, MachineType, PastType, Asked, Init

\* What a client does.
LEMMA ClientInv ==
  ASSUME SrvrInv, NEW i \in Conns, Client(i)
  PROVE  SrvrInv'
<1>1. Talk /\ MachineType /\ PastType /\ Asked /\ sock \in Sockets
  BY DEF SrvrInv, Talk
<1>2. /\ Talk' /\ sock' \in Sockets
      /\ Same(sock, sock') \/ \E c \in Commands : Send(i, c) /\ Puts(sock, sock', i, c)
  BY <1>1, ClientStep DEF Talk
<1>3. /\ PastType' /\ askedE' >= askedE /\ askedF' >= askedF
      /\ UNCHANGED <<host, prog, status, sd, eights>>
  <2>1. /\ UNCHANGED <<host, prog, status, sd, eights>>
        /\ \/ UNCHANGED <<askedE, askedF>>
           \/ \E c \in Commands : /\ askedE' = askedE + (IF c = "E" THEN 1 ELSE 0)
                                /\ askedF' = askedF + (IF c = "F" THEN 1 ELSE 0)
    BY DEF Client, Accept, Hangup, Send, TakeReplies, pastVars, hostVars
  <2> QED
    BY <1>1, <2>1 DEF PastType
<1>4. MachineType'
  BY <1>1, <1>3 DEF MachineType
<1>5. CASE Same(sock, sock')
  <2>1. /\ Nowhere(sock, "E") => Nowhere(sock', "E")
        /\ Nowhere(sock, "F") => Nowhere(sock', "F")
        /\ Once(sock, "E") => Once(sock', "E")
    BY <1>1, <1>2, <1>5, Kept DEF Same, Keeps
  <2>2. Asked'
    BY <1>1, <1>3, <2>1, AskedKept DEF Asked
  <2> QED
    BY <1>2, <1>3, <1>4, <2>2 DEF SrvrInv
<1>6. ASSUME NEW c \in Commands, Send(i, c), Puts(sock, sock', i, c)
      PROVE  SrvrInv'
  <2>1. /\ askedE' = askedE + (IF c = "E" THEN 1 ELSE 0)
        /\ askedF' = askedF + (IF c = "F" THEN 1 ELSE 0)
    BY <1>6 DEF Send
  <2>2. /\ c # "E" => /\ Nowhere(sock, "E") => Nowhere(sock', "E")
                      /\ Once(sock, "E") => Once(sock', "E")
        /\ c # "F" => (Nowhere(sock, "F") => Nowhere(sock', "F"))
        /\ Nowhere(sock, "E") => Once(sock', "E")
    BY <1>1, <1>2, <1>6, Put
  <2>3. Asked'
    BY <1>1, <1>3, <2>1, <2>2 DEF Asked, PastType
  <2> QED
    BY <1>2, <1>3, <1>4, <2>3 DEF SrvrInv
<1> QED
  BY <1>2, <1>5, <1>6

\* A turn of the loop of protocol_input().
LEMMA TurnInv ==
  ASSUME SrvrInv, NEW c, Turn(c), Answers(serving, Tail(sock[serving].buf)),
         serving' \in {serving, NoConn}, UNCHANGED pastVars, MachineType',
         host' = "off" => prog' = "off",
         c # "E" /\ c # "F" /\ prog' = "run" /\ status' # POPS_active =>
           prog = "run" /\ status # POPS_active
  PROVE  SrvrInv'
<1>1. Talk /\ MachineType /\ PastType /\ Asked /\ sock \in Sockets
  BY DEF SrvrInv, Talk
<1>2. /\ Talk' /\ sock' \in Sockets /\ c \in Commands /\ serving \in Conns
      /\ Takes(sock, sock', serving, c)
  BY <1>1, TurnStep DEF Talk, Turn
<1>3. /\ Nowhere(sock, "E") => Nowhere(sock', "E") /\ c # "E"
      /\ Nowhere(sock, "F") => Nowhere(sock', "F") /\ c # "F"
      /\ Once(sock, "E") => Once(sock', "E")
      /\ c = "E" /\ Once(sock, "E") => Nowhere(sock', "E")
  BY <1>1, <1>2, Taken
<1>4. PastType' /\ askedE' = askedE /\ askedF' = askedF
  BY <1>1 DEF PastType, pastVars
<1>5. Asked'
  <2>1. CASE c # "E" /\ c # "F"
    BY <1>1, <1>3, <1>4, <2>1, AskedKept DEF PastType
  <2>2. CASE c = "E"
    BY <1>1, <1>3, <1>4, <2>2 DEF Asked, PastType
  <2>3. CASE c = "F"
    BY <1>1, <1>3, <1>4, <2>3 DEF Asked, PastType
  <2> QED
    BY <2>1, <2>2, <2>3
<1> QED
  BY <1>2, <1>4, <1>5 DEF SrvrInv

\* A step of the network, the software or the computer.
LEMMA KeptInv ==
  ASSUME SrvrInv, Talk', Keeps(sock, sock'), UNCHANGED <<askedE, askedF>>, MachineType',
         host' = "off" => prog' = "off",
         prog' = "run" /\ status' # POPS_active => prog = "run" /\ status # POPS_active
  PROVE  SrvrInv'
<1>1. Talk /\ PastType /\ Asked /\ sock \in Sockets /\ sock' \in Sockets
  BY DEF SrvrInv, Talk
<1>2. /\ Nowhere(sock, "E") => Nowhere(sock', "E")
      /\ Nowhere(sock, "F") => Nowhere(sock', "F")
      /\ Once(sock, "E") => Once(sock', "E")
  BY <1>1, Kept
<1>3. PastType' /\ askedE' >= askedE /\ askedF' >= askedF
  BY <1>1 DEF PastType
<1>4. Asked'
  BY <1>1, <1>2, <1>3, AskedKept
<1> QED
  BY <1>3, <1>4 DEF SrvrInv

\* Answers, from what the actions say of sock.
LEMMA ConsumedAnswers ==
  ASSUME Talk, sock' = Consumed
  PROVE  Answers(serving, Tail(sock[serving].buf))
BY DEF Consumed, Answers, Talk, Sockets, Socket

\* The reply to an invalid command leaves the rest of the buffer, too.
LEMMA RepliedAnswers ==
  ASSUME Talk, sock' = Replied(serving, Consumed, ErrorReply)
  PROVE  Answers(serving, Tail(sock[serving].buf))
<1>1. Consumed = [sock EXCEPT ![serving].buf = Tail(sock[serving].buf)]
  BY DEF Consumed, Talk, Sockets, Socket
<1>2. ErrorReply \in POPS_idle .. ErrorReply
  BY DEF POPS_idle, ErrorReply
<1> QED
  BY <1>1, <1>2 DEF Answers

\* What protocol_input() does with a command, or at its end.
LEMMA ProtocolInputInv ==
  ASSUME SrvrInv, ProtocolInput
  PROVE  SrvrInv'
<1>0. Talk /\ MachineType /\ Asked
  BY DEF SrvrInv
<1>1. CASE Status
  BY <1>0, <1>1, ConsumedAnswers, TurnInv
     DEF Status, MachineType, hostVars, Asked
<1>2. CASE Start
  <2>1. MachineType' /\ (host' = "off" => prog' = "off")
    BY <1>0, <1>2 DEF Start, MachineType, Asked
  <2>2. status' = POPS_active
    BY <1>2 DEF Start
  <2>3. Turn("B") /\ Answers(serving, Tail(sock[serving].buf))
        /\ serving' = serving /\ UNCHANGED pastVars
    BY <1>0, <1>2, ConsumedAnswers DEF Start
  <2> QED
    BY <2>1, <2>2, <2>3, TurnInv
<1>3. CASE Shutdown
  <2>1. MachineType' /\ (host' = "off" => prog' = "off")
    BY <1>0, <1>3 DEF Shutdown, MachineType, Asked
  <2>2. Turn("E") /\ Answers(serving, Tail(sock[serving].buf))
        /\ serving' = serving /\ UNCHANGED pastVars
    BY <1>0, <1>3, ConsumedAnswers DEF Shutdown
  <2> QED
    BY <2>1, <2>2, TurnInv
<1>4. CASE ForcedShutdown
  <2>1. MachineType' /\ (host' = "off" => prog' = "off")
    BY <1>0, <1>4 DEF ForcedShutdown, MachineType, Asked
  <2>2. Turn("F") /\ Answers(serving, Tail(sock[serving].buf))
        /\ serving' = serving /\ UNCHANGED pastVars
    BY <1>0, <1>4, ConsumedAnswers DEF ForcedShutdown
  <2> QED
    BY <2>1, <2>2, TurnInv
<1>5. CASE Disconnect
  BY <1>0, <1>5, ConsumedAnswers, TurnInv
     DEF Disconnect, MachineType, hostVars, Asked
<1>6. CASE Invalid
  BY <1>0, <1>6, RepliedAnswers, TurnInv
     DEF Invalid, MachineType, hostVars, Asked
<1>7. CASE Reply
  BY <1>0, <1>7, ReplyStep, KeptInv
     DEF Reply, MachineType, hostVars, pastVars, Asked, Same, Keeps
<1> QED
  BY <1>1, <1>2, <1>3, <1>4, <1>5, <1>6, <1>7 DEF ProtocolInput

\* A step that leaves the connections alone.
LEMMA Quiet ==
  ASSUME Talk, UNCHANGED <<sock, serving>>
  PROVE  Talk' /\ Keeps(sock, sock') /\ Same(sock, sock')
BY DEF Talk, EndsAgree, Keeps, Same, Line

\* The software, the computer, and SD connecting.
LEMMA MachineInv ==
  ASSUME SrvrInv, Machine \/ ShutdownConnected
  PROVE  SrvrInv'
<1>0. Talk /\ MachineType /\ Asked
  BY DEF SrvrInv
<1>1. CASE EightArrives
  BY <1>0, <1>1, Quiet, KeptInv DEF EightArrives, MachineType, pastVars, Asked
<1>2. CASE HostHalts
  <2>1. Talk' /\ Keeps(sock, sock')
    BY <1>0, <1>2, StopStep DEF HostHalts
  <2> QED
    BY <1>0, <1>2, <2>1, KeptInv DEF HostHalts, Stopped, MachineType, pastVars
<1>3. CASE PowerOff
  <2>1. Talk' /\ Keeps(sock, sock')
    BY <1>0, <1>3, StopStep DEF PowerOff
  <2> QED
    BY <1>0, <1>3, <2>1, KeptInv DEF PowerOff, Stopped, MachineType
<1>4. CASE PowerOn
  BY <1>0, <1>4, Quiet, KeptInv DEF PowerOn, MachineType, pastVars, Asked
<1>5. CASE ShutdownConnected
  BY <1>0, <1>5, Quiet, KeptInv DEF ShutdownConnected, MachineType, pastVars, Asked
<1> QED
  BY <1>1, <1>2, <1>3, <1>4, <1>5 DEF Machine

\* The invariant is inductive.
LEMMA NextInv == SrvrInv /\ [Next]_vars => SrvrInv'
<1> SUFFICES ASSUME SrvrInv, [Next]_vars PROVE SrvrInv'
  OBVIOUS
<1>0. Talk /\ MachineType /\ Asked
  BY DEF SrvrInv
<1>1. CASE UNCHANGED vars
  BY <1>0, <1>1, Quiet, KeptInv DEF vars, MachineType, Asked
<1>2. ASSUME NEW i \in Conns, Client(i) PROVE SrvrInv'
  BY <1>2, ClientInv
<1>3. ASSUME NEW i \in Conns, Read(i) \/ Reap(i) PROVE SrvrInv'
  <2>1. Talk' /\ Keeps(sock, sock')
    BY <1>0, <1>3, ReadStep
  <2> QED
    BY <1>0, <1>3, <2>1, KeptInv DEF Read, Reap, MachineType, hostVars, pastVars, Asked
<1>4. CASE ProtocolInput
  BY <1>4, ProtocolInputInv
<1>5. CASE ShutdownConnected \/ Machine
  BY <1>5, MachineInv
<1> QED
  BY <1>1, <1>2, <1>3, <1>4, <1>5 DEF Next

\* An order that halts the computer under running software is an F, or an E
\* that is not the first.
LEMMA HaltStep ==
  SrvrInv /\ [Next]_vars =>
    (host = "up" /\ host' = "halting" /\ prog = "run" => askedF > 0 \/ askedE > 1)
<1> SUFFICES ASSUME SrvrInv, [Next]_vars, host = "up", host' = "halting", prog = "run"
             PROVE  askedF > 0 \/ askedE > 1
  OBVIOUS
<1>0. Talk /\ PastType /\ Asked /\ sock \in Sockets
  BY DEF SrvrInv, Talk
<1>1. (Shutdown /\ Halts) \/ ForcedShutdown
  BY DEF Next, vars, Client, Accept, Hangup, Send, TakeReplies, Read, Reap,
         ProtocolInput, Status, Start, Shutdown, Disconnect, Invalid, Reply,
         ShutdownConnected, Machine, EightArrives, HostHalts, PowerOff, PowerOn,
         Stopped, hostVars
<1>2. ASSUME NEW c, Turn(c), sock' = Consumed, serving' = serving
      PROVE  Nowhere(sock, c) => FALSE
  <2>1. /\ Talk' /\ sock' \in Sockets /\ c \in Commands /\ serving \in Conns
        /\ Takes(sock, sock', serving, c)
    BY <1>0, <1>2, ConsumedAnswers, TurnStep DEF Talk, Turn
  <2> QED
    BY <1>0, <2>1, Taken
<1>3. CASE Shutdown /\ Halts
  <2>1. ~Nowhere(sock, "E")
    BY <1>2, <1>3 DEF Shutdown
  <2> QED
    BY <1>0, <1>3, <2>1 DEF Halts, Asked, PastType
<1>4. CASE ForcedShutdown
  <2>1. ~Nowhere(sock, "F")
    BY <1>2, <1>4 DEF ForcedShutdown
  <2> QED
    BY <1>0, <2>1 DEF Asked, PastType
<1> QED
  BY <1>1, <1>3, <1>4

-----------------------------------------------------------------------------
(* No order is forgotten in a buffer.                                      *)

\* As long as nobody asks for D, only the connection that is served has
\* something in its buffer: each protocol_input() empties what was read.
Emptied ==
  /\ askedD \in Nat
  /\ askedD = 0 => /\ Nowhere(sock, "D")
                   /\ \A i \in Conns : sock[i].buf # <<>> => serving = i

\* What may happen to the orders of connection i: one is sent, the first is
\* executed, or all are lost with the computer.
LineKept(i) ==
  \/ Line(sock', i) = Line(sock, i)
  \/ \E c \in Commands : Send(i, c) /\ Line(sock', i) = Append(Line(sock, i), c)
  \/ ProtocolInput /\ serving = i /\ Line(sock', i) = Tail(Line(sock, i))
  \/ host # "off" /\ host' = "off" /\ Line(sock', i) = <<>>

\* What both say of a step.
Emptying == askedD' \in Nat /\ (askedD' = 0 => Emptied' /\ \A i \in Conns : LineKept(i))

\* A client sends behind what is there, and empties no buffer but its own.
LEMMA ClientEmpties ==
  ASSUME Talk, Emptied, NEW i \in Conns, Client(i)
  PROVE  Emptying
<1>0. askedD \in Nat /\ sock \in Sockets
  BY DEF Emptied, Talk
<1>1. \A j \in Conns : sock'[j].buf = sock[j].buf \/ sock'[j].buf = <<>>
  <2>1. CASE Accept(i)
    BY <1>0, <2>1, FreeIs DEF Accept, Sockets
  <2>2. CASE Hangup(i)
    BY <1>0, <2>2, FreeIs DEF Hangup, HungUp, Sockets, Socket
  <2>3. ASSUME NEW c, Send(i, c) PROVE \A j \in Conns : sock'[j].buf = sock[j].buf
    BY <1>0, <2>3 DEF Send, Sent, Sockets, Socket
  <2>4. ASSUME NEW k, TakeReplies(i, k) PROVE \A j \in Conns : sock'[j].buf = sock[j].buf
    BY <1>0, <2>4 DEF TakeReplies, Sockets, Socket
  <2> QED
    BY <2>1, <2>2, <2>3, <2>4 DEF Client
<1>2. serving' = serving
  BY DEF Client, Accept, Send, TakeReplies, Hangup
<1>3. /\ Talk' /\ sock' \in Sockets
      /\ Same(sock, sock') \/ \E c \in Commands : Send(i, c) /\ Puts(sock, sock', i, c)
  BY ClientStep DEF Talk
<1>4. \/ askedD' = askedD
      \/ \E c \in Commands : askedD' = askedD + (IF c = "D" THEN 1 ELSE 0)
  BY DEF Client, Accept, Hangup, Send, TakeReplies, pastVars
<1>5. askedD' \in Nat /\ (askedD' = 0 => askedD = 0)
  BY <1>0, <1>4
<1> SUFFICES ASSUME askedD' = 0
             PROVE  Nowhere(sock', "D") /\ \A j \in Conns : LineKept(j)
  BY <1>1, <1>2, <1>5 DEF Emptied, Emptying
<1>6. Nowhere(sock, "D")
  BY <1>5 DEF Emptied
<1>7. CASE Same(sock, sock')
  <2>1. Nowhere(sock', "D")
    BY <1>0, <1>3, <1>6, <1>7, Kept DEF Same, Keeps
  <2> QED
    BY <1>7, <2>1 DEF Same, LineKept
<1>8. ASSUME NEW c \in Commands, Send(i, c), Puts(sock, sock', i, c)
      PROVE  Nowhere(sock', "D") /\ \A j \in Conns : LineKept(j)
  <2>1. askedD' = askedD + (IF c = "D" THEN 1 ELSE 0)
    BY <1>8 DEF Send
  <2>2. c # "D"
    BY <1>0, <2>1
  <2>3. Nowhere(sock', "D")
    BY <1>0, <1>3, <1>6, <1>8, <2>2, Put
  <2> QED
    BY <1>8, <2>3 DEF Puts, LineKept
<1> QED
  BY <1>3, <1>7, <1>8

\* The server reads only when the last connection's buffer is empty, so that the
\* end of a connection finds nothing in it.
LEMMA ReadEmpties ==
  ASSUME Talk, Emptied, NEW i \in Conns, Read(i) \/ Reap(i)
  PROVE  Emptying
<1>0. askedD \in Nat /\ sock \in Sockets /\ NoConn \notin Conns
  BY PopsSrvrAssumption DEF Emptied, Talk
<1>1. askedD' = askedD /\ serving = NoConn
  BY DEF Read, Reap, pastVars, Idle
<1> SUFFICES ASSUME askedD = 0
             PROVE  Emptied' /\ \A j \in Conns : LineKept(j)
  BY <1>0, <1>1 DEF Emptying
<1>2. \A j \in Conns : sock[j].buf = <<>>
  BY <1>0, <1>1 DEF Emptied
<1>3. \A j \in Conns \ {i} : sock'[j] = sock[j]
  BY <1>0 DEF Read, Reap, Sockets
<1>4. /\ sock' \in Sockets /\ Keeps(sock, sock')
      /\ Read(i) => Same(sock, sock')
      /\ Reap(i) => /\ \A j \in Conns \ {i} : Line(sock', j) = Line(sock, j)
                    /\ Line(sock', i) = <<>>
  BY ReadStep DEF Talk
<1>5. Nowhere(sock', "D")
  BY <1>0, <1>4, Kept DEF Emptied
<1>6. CASE Read(i)
  <2>1. serving' = i
    BY <1>6 DEF Read
  <2> QED
    BY <1>0, <1>1, <1>2, <1>3, <1>4, <1>5, <1>6, <2>1 DEF Emptied, Same, LineKept
<1>7. CASE Reap(i)
  <2>1. sock[i].req = <<>> /\ sock'[i] = Free
    BY <1>0, <1>7 DEF Reap, Sockets
  <2>2. Line(sock, i) = <<>>
    BY <1>2, <2>1 DEF Line
  <2>3. \A j \in Conns : Line(sock', j) = Line(sock, j)
    BY <1>4, <1>7, <2>2
  <2>4. \A j \in Conns : sock'[j].buf = <<>>
    BY <1>2, <1>3, <2>1, FreeIs
  <2> QED
    BY <1>0, <1>1, <1>5, <2>3, <2>4 DEF Emptied, LineKept
<1> QED
  BY <1>6, <1>7

\* protocol_input() goes on to the end of its buffer, unless it comes to a D.
LEMMA TurnEmpties ==
  ASSUME SrvrInv, Emptied, ProtocolInput
  PROVE  Emptying
<1>0. Talk /\ MachineType /\ askedD \in Nat /\ sock \in Sockets /\ NoConn \notin Conns
  BY PopsSrvrAssumption DEF SrvrInv, Emptied, Talk
<1>1. askedD' = askedD
  BY DEF ProtocolInput, Status, Start, Shutdown, ForcedShutdown, Disconnect, Invalid,
         Reply, pastVars
<1> SUFFICES ASSUME askedD = 0
             PROVE  Emptied' /\ \A j \in Conns : LineKept(j)
  BY <1>0, <1>1 DEF Emptying
<1>2. Nowhere(sock, "D") /\ \A j \in Conns : sock[j].buf # <<>> => serving = j
  BY DEF Emptied
<1>3. ASSUME NEW c, Turn(c), Answers(serving, Tail(sock[serving].buf)),
             serving' \in {serving, NoConn}, c # "D" => serving' = serving
      PROVE  Emptied' /\ \A j \in Conns : LineKept(j)
  <2>1. /\ sock' \in Sockets /\ c \in Commands /\ serving \in Conns
        /\ Takes(sock, sock', serving, c)
    BY <1>0, <1>3, TurnStep DEF Talk, Turn
  <2>2. Nowhere(sock', "D") /\ c # "D"
    BY <1>0, <1>2, <2>1, Taken
  <2>3. \A j \in Conns \ {serving} : sock'[j] = sock[j]
    BY <1>0, <1>3, <2>1 DEF Answers, Replied, Sockets
  <2>4. Emptied'
    BY <1>0, <1>1, <1>2, <1>3, <2>2, <2>3 DEF Emptied
  <2> QED
    BY <2>1, <2>4 DEF Takes, LineKept
<1>4. CASE Reply
  <2>1. sock' \in Sockets /\ Same(sock, sock')
    BY <1>0, <1>4, ReplyStep DEF Talk
  <2>2. Nowhere(sock', "D")
    BY <1>0, <1>2, <2>1, Kept DEF Same, Keeps
  <2>3. \A j \in Conns : sock[j].buf = <<>>
    BY <1>2, <1>4 DEF Reply
  <2>4. \A j \in Conns : sock'[j].buf = sock[j].buf
    BY <1>0, <1>4 DEF Reply, Replied, Sockets, Socket
  <2>5. Emptied'
    BY <1>0, <1>1, <2>2, <2>3, <2>4 DEF Emptied
  <2> QED
    BY <2>1, <2>5 DEF Same, LineKept
<1>5. ASSUME NEW c, Turn(c), sock' = Consumed \/ sock' = Replied(serving, Consumed, ErrorReply)
      PROVE  Answers(serving, Tail(sock[serving].buf))
  BY <1>0, <1>5, ConsumedAnswers, RepliedAnswers
<1>6. CASE Status \/ Start \/ Shutdown \/ ForcedShutdown \/ Disconnect \/ Invalid
  <2>1. PICK c : /\ Turn(c)
                 /\ sock' = Consumed \/ sock' = Replied(serving, Consumed, ErrorReply)
                 /\ serving' \in {serving, NoConn} /\ (c # "D" => serving' = serving)
    BY <1>6 DEF Status, Start, Shutdown, ForcedShutdown, Disconnect, Invalid
  <2> QED
    BY <1>3, <1>5, <2>1
<1> QED
  BY <1>4, <1>6 DEF ProtocolInput

\* The computer takes with it what waits.
LEMMA MachineEmpties ==
  ASSUME Talk, Emptied, Machine \/ ShutdownConnected
  PROVE  Emptying
<1>0. askedD \in Nat /\ sock \in Sockets
  BY DEF Emptied, Talk
<1>1. askedD' = askedD
  BY DEF Machine, EightArrives, HostHalts, PowerOff, PowerOn, ShutdownConnected, pastVars
<1>2. CASE UNCHANGED <<sock, serving>>
  BY <1>0, <1>1, <1>2 DEF Emptied, Nowhere, Line, LineKept, Emptying
<1>3. CASE HostHalts \/ PowerOff
  <2>1. PICK end \in {"fin", "gone"} : Stopped(end)
    BY <1>3 DEF HostHalts, PowerOff
  <2>2. /\ sock' \in Sockets /\ Keeps(sock, sock')
        /\ \A j \in Conns : Line(sock', j) = <<>>
    BY <2>1, StopStep DEF Talk
  <2>3. \A j \in Conns : sock'[j].buf = <<>>
    BY <2>1 DEF Stopped, Free, Talk, Sockets, Socket
  <2>4. host # "off" /\ host' = "off"
    BY <1>3, <2>1 DEF HostHalts, PowerOff, Running, Stopped
  <2>5. Nowhere(sock, "D") => Nowhere(sock', "D")
    BY <1>0, <2>2, Kept
  <2> QED
    BY <1>0, <1>1, <2>2, <2>3, <2>4, <2>5 DEF Emptied, LineKept, Emptying
<1> QED
  BY <1>2, <1>3 DEF Machine, EightArrives, PowerOn, ShutdownConnected

\* Every step.
LEMMA EmptiesNext == SrvrInv /\ Emptied /\ [Next]_vars => Emptying
<1> SUFFICES ASSUME SrvrInv, Emptied, [Next]_vars PROVE Emptying
  OBVIOUS
<1>0. Talk /\ askedD \in Nat
  BY DEF SrvrInv, Emptied
<1>1. CASE UNCHANGED vars
  <2>1. UNCHANGED <<sock, serving, askedD>>
    BY <1>1 DEF vars, pastVars
  <2> QED
    BY <1>0, <2>1 DEF Emptied, Nowhere, Line, LineKept, Emptying
<1> QED
  BY <1>0, <1>1, ClientEmpties, ReadEmpties, TurnEmpties, MachineEmpties DEF Next

\* At the beginning there are no orders.
LEMMA InitEmptied == Init => Emptied
<1> SUFFICES ASSUME Init PROVE Emptied
  OBVIOUS
<1>1. \A i \in Conns : sock[i] = Free
  BY DEF Init
<1>2. \A i \in Conns : sock[i].buf = <<>> /\ Line(sock, i) = <<>>
  BY <1>1, FreeIs DEF Line
<1>3. Nowhere(sock, "D")
  <2>1. \A i \in Conns : 1 .. Len(Line(sock, i)) = {}
    BY <1>2
  <2> QED
    BY <2>1 DEF Nowhere
<1> QED
  BY <1>2, <1>3 DEF Init, Emptied

\* Of clients that have no order D, nobody sends one.
LEMMA NoneAsked ==
  ASSUME "D" \notin Commands, askedD = 0, [Next]_vars
  PROVE  askedD' = 0
<1>1. ASSUME NEW i \in Conns, NEW c \in Commands, Send(i, c) PROVE askedD' = 0
  BY <1>1 DEF Send
<1> QED
  BY <1>1 DEF Next, vars, pastVars, Client, Accept, Hangup, TakeReplies, Read, Reap,
     ProtocolInput, Status, Start, Shutdown, ForcedShutdown, Disconnect, Invalid, Reply,
     ShutdownConnected, Machine, EightArrives, HostHalts, PowerOff, PowerOn

-----------------------------------------------------------------------------
(* The theorems.                                                           *)

\* In every reachable state the orders on their way were asked for, and the
\* status tells what the software was told (protocol_input()).
THEOREM SrvrInvariant == Spec => []SrvrInv
<1> QED
  BY InitInv, NextInv, PTL DEF Spec

\* Every variable of the server has its type and a connection with data in it
\* two ends.
THEOREM SrvrTypeCorrect == Spec => []TypeOK
<1>1. SrvrInv => TypeOK
  BY DEF SrvrInv, Talk, MachineType, EndsAgree, Sockets, Socket, TypeOK
<1> QED
  BY <1>1, SrvrInvariant, PTL

\* protocol_input() halts the computer under POPS software that runs only at a
\* forced shutdown or at a second shutdown, whatever the connections and the
\* orders between.
THEOREM DeliberateHalt == Spec => HaltIsDeliberate
<1> DEFINE Deliberate ==
      host = "up" /\ host' = "halting" /\ prog = "run" => askedF > 0 \/ askedE > 1
<1>1. SrvrInv /\ [Next]_vars => [Deliberate]_vars
  BY HaltStep
<1> QED
  BY <1>1, SrvrInvariant, PTL DEF Spec, HaltIsDeliberate

LEMMA AlwaysEmptied == Spec => []Emptied
<1>1. Init => Emptied
  BY InitEmptied
<1>2. SrvrInv /\ Emptied /\ [Next]_vars => Emptied'
  BY EmptiesNext DEF Emptying, Emptied
<1> QED
  BY <1>1, <1>2, SrvrInvariant, PTL DEF Spec

\* The server leaves nothing that it has read: what is in the buffer of a
\* connection it does not serve came with a D, behind which protocol_input()
\* reads no further.
NothingLeft == \A i \in Conns : sock[i].buf # <<>> => serving = i \/ askedD > 0

\* It is what every protocol_input() restores, and no client disturbs.
THEOREM ReadsToTheEnd == Spec => []NothingLeft
<1>1. Emptied => NothingLeft
  BY DEF Emptied, NothingLeft
<1> QED
  BY <1>1, AlwaysEmptied, PTL

\* An order that was sent stays in its place until protocol_input() comes to it,
\* or the computer stops; in particular a client that hangs up takes back none
\* of its orders.
NoneForgotten == [][askedD' = 0 => \A i \in Conns : LineKept(i)]_vars

\* However reads cut the orders, connections end and clients alternate, the
\* server executes each order it has received, in the order of its connection.
THEOREM OrdersAreExecuted == Spec => NoneForgotten
<1> DEFINE Remembered == askedD' = 0 => \A i \in Conns : LineKept(i)
<1>1. SrvrInv /\ Emptied /\ [Next]_vars => [Remembered]_vars
  BY EmptiesNext DEF Emptying
<1> QED
  BY <1>1, SrvrInvariant, AlwaysEmptied, PTL DEF Spec, NoneForgotten
=============================================================================
