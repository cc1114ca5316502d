--------------------------- MODULE CosmidAlgoProofs ---------------------------
(***************************************************************************)
(* Theorems of module CosmidAlgo, for every length of its waits and every  *)
(* bound.                                                                  *)
(***************************************************************************)
EXTENDS CosmidAlgo, TLAPS

OneP == INSTANCE PopsServiceProofs WITH svc <- pops
TwoP == INSTANCE PopsServiceProofs WITH svc <- pops2

-----------------------------------------------------------------------------
(* The two services, as in PopsServiceProofs.                              *)

\* The first instrument's service is the one the lemmas of PopsServiceProofs
\* are about.
LEMMA ServiceOne ==
  /\ One!Services = OneP!Services
  /\ One!Driver <=> OneP!Driver
  /\ One!Instrument <=> OneP!Instrument
  /\ \A c \in Orders : One!Order(c) <=> OneP!Order(c)
  /\ One!POPS_active = OneP!POPS_active
BY DEF One!Services, OneP!Services, One!Statuses, OneP!Statuses,
  One!POPS_idle, OneP!POPS_idle, One!POPS_active, OneP!POPS_active,
  One!POPS_shutdown, OneP!POPS_shutdown, One!Running, OneP!Running,
  One!Driver, OneP!Driver, One!Contact, OneP!Contact, One!Read, OneP!Read,
  One!LoseContact, OneP!LoseContact, One!Quit, OneP!Quit,
  One!Instrument, OneP!Instrument, One!Executes, OneP!Executes,
  One!Start, OneP!Start, One!Halts, OneP!Halts,
  One!Shutdown, OneP!Shutdown, One!ForcedShutdown, OneP!ForcedShutdown,
  One!Report, OneP!Report, One!Ends, OneP!Ends, One!NoOrders, OneP!NoOrders,
  One!Stops, OneP!Stops, One!Boots, OneP!Boots, One!Order, OneP!Order

\* So is the second one's.
LEMMA ServiceTwo ==
  /\ Two!Services = TwoP!Services
  /\ Two!Driver <=> TwoP!Driver
  /\ Two!Instrument <=> TwoP!Instrument
  /\ \A c \in Orders : Two!Order(c) <=> TwoP!Order(c)
BY DEF Two!Services, TwoP!Services, Two!Statuses, TwoP!Statuses,
  Two!POPS_idle, TwoP!POPS_idle, Two!POPS_active, TwoP!POPS_active,
  Two!POPS_shutdown, TwoP!POPS_shutdown, Two!Running, TwoP!Running,
  Two!Driver, TwoP!Driver, Two!Contact, TwoP!Contact, Two!Read, TwoP!Read,
  Two!LoseContact, TwoP!LoseContact, Two!Quit, TwoP!Quit,
  Two!Instrument, TwoP!Instrument, Two!Executes, TwoP!Executes,
  Two!Start, TwoP!Start, Two!Halts, TwoP!Halts,
  Two!Shutdown, TwoP!Shutdown, Two!ForcedShutdown, TwoP!ForcedShutdown,
  Two!Report, TwoP!Report, Two!Ends, TwoP!Ends, Two!NoOrders, TwoP!NoOrders,
  Two!Stops, TwoP!Stops, Two!Boots, TwoP!Boots, Two!Order, TwoP!Order

-----------------------------------------------------------------------------
(* One step of each partition.                                             *)

P1States == Down \cup {"Init", "LaunchHold", "Flight"}
P2States == POPS1_Init \cup {"POPS1_Active", "POPS1_Shutdown"}
P3States == POPS2_Idle \cup {"POPS2_Init", "POPS2_Active", "POPS2_Shutdown"}

\* A "Hold until ... or n" counts its seconds up to n.
LEMMA WaitsInRange ==
  ASSUME NEW state, NEW most \in Nat, NEW secs \in 0 .. most
  PROVE  /\ Waits(state, secs, most).state = state
         /\ Waits(state, secs, most).order = "none"
         /\ Waits(state, secs, most).wait \in 0 .. most
BY DEF Waits, Goes

\* What one second makes of the first partition: it never leaves a shutdown.
LEMMA P1Steps ==
  ASSUME TypeOK, NEW shut \in BOOLEAN
  PROVE  LET s == P1Step(shut)
         IN /\ s.state \in P1States /\ s.wait \in 0 .. HoldFor
            /\ P1 \in Down => s.state \in Down
BY AlgoAssumption DEF TypeOK, P1Step, Goes, Waits, Down, P1States

\* Of the second one: "> POPS Start" comes out of the wait before it, and
\* "> POPS Shutdown" with the change to POPS1_Shutdown, which it never leaves.
LEMMA P2Steps ==
  ASSUME TypeOK, NEW down \in BOOLEAN
  PROVE  LET s == P2Step(down)
         IN /\ s.state \in P2States /\ s.wait \in 0 .. StartAfter
            /\ s.order \in {"none"} \cup Orders
            /\ s.order = "B" => P2 = "Starting"
            /\ s.order = "E" <=> s.state = "POPS1_Shutdown" /\ P2 # s.state
            /\ P2 = "POPS1_Shutdown" => s.state = P2
            /\ down => s.state # "POPS1_Active"
            /\ s.state \in {"Starting", "Started"} =>
                 P2 \in {"Starting", "Started"} \/ pops.Srvr = idle
BY AlgoAssumption
   DEF TypeOK, P2Step, Goes, GoesWith, Waits, POPS1_Init, P2States, Orders

\* Of the third one: as the second; it leaves POPS2_Init only for a first
\* instrument that is idle, and climbs only behind one that is active.
LEMMA P3Steps ==
  ASSUME TypeOK, NEW down \in BOOLEAN
  PROVE  LET s == P3Step(down)
         IN /\ s.state \in P3States /\ s.wait \in 0 .. ClimbAfter
            /\ s.order \in {"none"} \cup Orders
            /\ s.order = "B" => P3 = "Starting"
            /\ s.order = "E" <=> s.state = "POPS2_Shutdown" /\ P3 # s.state
            /\ P3 = "POPS2_Shutdown" => s.state = P3
            /\ down => s.state = "POPS2_Shutdown"
            /\ s.state = "POPS2_Init" => P3 = s.state /\ pops.Srvr # idle
            /\ s.state \in {"Climbing", "Starting", "Started"} =>
                 P3 \in {"Climbing", "Starting", "Started"} \/ pops.Srvr = active
<1> USE AlgoAssumption
    DEF TypeOK, P3Step, Goes, GoesWith, Waits, POPS2_Idle, P3States, Orders,
        MayIdle, MayClimb, DependsOnShutdown
<1>1. CASE down
  BY <1>1
<1>2. CASE ~down /\ pops2.Srvr = active
  BY <1>2
<1>3. CASE ~down /\ pops2.Srvr # active /\ P3 = "Climbing"
  BY <1>3
<1>4. CASE ~down /\ pops2.Srvr # active /\ P3 # "Climbing"
  BY <1>4
<1> QED
  BY <1>1, <1>2, <1>3, <1>4

-----------------------------------------------------------------------------
(* The invariant.                                                          *)

\* What the partitions were when they gave their orders.
Partitions ==
  /\ P2 \in {"Starting", "Started"} \/ "B" \in given => P3 # "POPS2_Init"
  /\ P1 \in Down => P2 # "POPS1_Active" /\ P3 = "POPS2_Shutdown"
  /\ "E" \in given <=> P2 = "POPS1_Shutdown"
  /\ "E" \in given2 <=> P3 = "POPS2_Shutdown"
  /\ P3 \in {"Climbing", "Starting", "Started"} \/ "B" \in given2 => wasActive

\* What their services were.
ServicesTold ==
  /\ OneP!Seen(pops, wasActive)
  /\ OneP!Told(pops, given, orphan)
  /\ TwoP!Told(pops2, given2, orphan2)

IInv == TypeOK /\ Partitions /\ ServicesTold

\* The algorithm starts with instruments an earlier run left behind.
LEMMA InitIInv == Init => IInv
<1> SUFFICES ASSUME Init PROVE IInv
  OBVIOUS
<1>1. /\ One!NoOrders \in [Orders -> Nat] /\ <<>> \in Seq(One!Statuses)
      /\ One!NoOrders["E"] = 0
  BY DEF One!NoOrders, Orders
<1>2. ASSUME NEW s \in Left
      PROVE  /\ s \in One!Services /\ s \in Two!Services
             /\ s.host = "up" /\ s.sent["E"] = 0 /\ s.Srvr = 0 /\ s.news = <<>>
             /\ s.prog = "run" => s.status \in {active, shutdown}
  <2>1. PICK v \in One!Statuses, p \in {"off", "run"} :
          /\ s = [host |-> "up", prog |-> p, status |-> v,
                  sent |-> One!NoOrders, news |-> <<>>, contact |-> FALSE,
                  Srvr |-> 0, quit |-> FALSE]
          /\ p = "run" => v \in {active, shutdown}
    <3>1. CASE s = One!Fresh
      BY <3>1 DEF One!Fresh, One!Statuses
    <3>2. CASE \E v \in {active, shutdown}, p \in {"off", "run"} :
                 s = [One!Fresh EXCEPT !.status = v, !.prog = p]
      <4>1. PICK v \in {active, shutdown}, p \in {"off", "run"} :
              s = [One!Fresh EXCEPT !.status = v, !.prog = p]
        BY <3>2
      <4>2. v \in One!Statuses
        BY DEF active, shutdown, One!Statuses
      <4> QED
        BY <4>1, <4>2 DEF One!Fresh
    <3> QED
      BY <3>1, <3>2 DEF Left
  <2>3. s \in One!Services
    BY <1>1, <2>1 DEF One!Services
  <2>4. One!Services = Two!Services
    BY DEF One!Services, Two!Services, One!Statuses, Two!Statuses,
           One!POPS_idle, Two!POPS_idle, One!POPS_active, Two!POPS_active,
           One!POPS_shutdown, Two!POPS_shutdown
  <2> QED
    BY <1>1, <2>1, <2>3, <2>4
<1>3. TypeOK
  BY <1>2, AlgoAssumption
     DEF Init, TypeOK, POPS1_Init, IsOrphan
<1>4. Partitions
  BY DEF Init, Partitions, Down
<1>5. ServicesTold
  <2>1. active = 2 /\ shutdown = 3 /\ OneP!POPS_active = 2 /\ TwoP!POPS_active = 2
    BY DEF active, shutdown, One!POPS_active, OneP!POPS_active,
           TwoP!POPS_active, One!POPS_shutdown
  <2>2. pops \in Left /\ pops2 \in Left /\ given = {} /\ given2 = {}
    BY DEF Init
  <2>3. OneP!Seen(pops, wasActive)
    <3>1. pops.Srvr = 0 /\ Len(pops.news) = 0
      BY <1>2, <2>2
    <3>2. pops.status = active => wasActive
      BY DEF Init
    <3> QED
      BY <2>1, <3>1, <3>2 DEF OneP!Seen
  <2>4. OneP!Told(pops, given, orphan)
    <3>1. pops.prog = "run" /\ pops.status = shutdown => orphan
      BY DEF Init, IsOrphan
    <3> QED
      BY <1>2, <2>1, <2>2, <3>1 DEF OneP!Told
  <2>5. TwoP!Told(pops2, given2, orphan2)
    <3>1. pops2.prog = "run" /\ pops2.status = shutdown => orphan2
      BY DEF Init, IsOrphan
    <3> QED
      BY <1>2, <2>1, <2>2, <3>1 DEF TwoP!Told
  <2> QED
    BY <2>3, <2>4, <2>5 DEF ServicesTold
<1> QED
  BY <1>3, <1>4, <1>5 DEF IInv

\* A second of the algorithm.
LEMMA SecondKeeps ==
  ASSUME IInv, NEW shut \in BOOLEAN, Second(shut)
  PROVE  IInv' /\ pops'.host = pops.host /\ pops2'.host = pops2.host
<1> DEFINE step1 == P1Step(shut)
           down == step1.state \in Down
           step2 == P2Step(down)
           step3 == P3Step(down)
<1>1. /\ P1' = step1.state /\ P2' = step2.state /\ P3' = step3.state
      /\ wait' = <<step1.wait, step2.wait, step3.wait>>
      /\ given' = given \cup Order(step2) /\ given2' = given2 \cup Order(step3)
      /\ UNCHANGED <<climbed, pastVars, stops>>
      /\ IF Order(step2) = {} THEN UNCHANGED pops ELSE One!Order(step2.order)
      /\ IF Order(step3) = {} THEN UNCHANGED pops2 ELSE Two!Order(step3.order)
  BY DEF Second, Gives
<1>2. TypeOK /\ down \in BOOLEAN
  BY DEF IInv
<1>3. /\ step1.state \in P1States /\ step1.wait \in 0 .. HoldFor
      /\ P1 \in Down => step1.state \in Down
  BY <1>2, P1Steps
<1>4. /\ step2.state \in P2States /\ step2.wait \in 0 .. StartAfter
      /\ step2.order \in {"none"} \cup Orders
      /\ step2.order = "B" => P2 = "Starting"
      /\ step2.order = "E" <=> step2.state = "POPS1_Shutdown" /\ P2 # step2.state
      /\ P2 = "POPS1_Shutdown" => step2.state = P2
      /\ down => step2.state # "POPS1_Active"
      /\ step2.state \in {"Starting", "Started"} =>
           P2 \in {"Starting", "Started"} \/ pops.Srvr = idle
  BY <1>2, P2Steps
<1>5. /\ step3.state \in P3States /\ step3.wait \in 0 .. ClimbAfter
      /\ step3.order \in {"none"} \cup Orders
      /\ step3.order = "B" => P3 = "Starting"
      /\ step3.order = "E" <=> step3.state = "POPS2_Shutdown" /\ P3 # step3.state
      /\ P3 = "POPS2_Shutdown" => step3.state = P3
      /\ down => step3.state = "POPS2_Shutdown"
      /\ step3.state = "POPS2_Init" => P3 = step3.state /\ pops.Srvr # idle
      /\ step3.state \in {"Climbing", "Starting", "Started"} =>
           P3 \in {"Climbing", "Starting", "Started"} \/ pops.Srvr = active
  BY <1>2, P3Steps
<1> HIDE DEF step1, step2, step3
<1>6. /\ Order(step2) = {} <=> step2.order = "none"
      /\ Order(step3) = {} <=> step3.order = "none"
      /\ \A c \in Orders : (c \in Order(step2)) <=> (step2.order = c)
      /\ \A c \in Orders : (c \in Order(step3)) <=> (step3.order = c)
      /\ Order(step2) \subseteq Orders /\ Order(step3) \subseteq Orders
      /\ "B" \in Orders /\ "E" \in Orders
  BY <1>4, <1>5 DEF Order, Orders
<1>7. /\ pops' \in One!Services /\ pops'.host = pops.host
      /\ OneP!Seen(pops', wasActive)
      /\ OneP!Told(pops', given', orphan)
  <2>1. pops \in OneP!Services /\ OneP!Seen(pops, wasActive)
        /\ OneP!Told(pops, given, orphan)
        /\ wasActive \in BOOLEAN /\ orphan \in BOOLEAN
    BY ServiceOne DEF IInv, TypeOK, ServicesTold
  <2>2. CASE step2.order = "none"
    BY <1>1, <1>6, <2>1, <2>2, ServiceOne
  <2>3. CASE step2.order \in Orders
    <3> DEFINE c == step2.order
    <3>1. OneP!Order(c) /\ "none" \notin Orders
      BY <1>1, <1>6, <2>3, ServiceOne DEF Orders
    <3>2. c = "E" => c \notin given
      BY <1>4 DEF IInv, Partitions
    <3>3. given' = given \cup {c}
      BY <1>1, <2>3, <3>1 DEF Order
    <3>4. pops' \in OneP!Services
      BY <2>1, <2>3, <3>1, OneP!OrderType
    <3>5. OneP!Seen(pops', wasActive)
      BY <2>1, <2>3, <3>1, OneP!OrderSeen
    <3>6. OneP!Told(pops', given \cup {c}, orphan) /\ pops'.host = pops.host
      BY <1>6, <2>1, <2>3, <3>1, <3>2, OneP!OrderTold
    <3>7. OneP!Told(pops', given', orphan)
      BY <3>3, <3>6
    <3> QED
      BY <3>4, <3>5, <3>6, <3>7, ServiceOne
  <2> QED
    BY <1>4, <2>2, <2>3
<1>8. /\ pops2' \in Two!Services /\ pops2'.host = pops2.host
      /\ TwoP!Told(pops2', given2', orphan2)
  <2>1. pops2 \in TwoP!Services
        /\ TwoP!Told(pops2, given2, orphan2) /\ orphan2 \in BOOLEAN
    BY ServiceTwo DEF IInv, TypeOK, ServicesTold
  <2>2. CASE step3.order = "none"
    BY <1>1, <1>6, <2>1, <2>2, ServiceTwo
  <2>3. CASE step3.order \in Orders
    <3> DEFINE c == step3.order
    <3>1. TwoP!Order(c) /\ "none" \notin Orders
      BY <1>1, <1>6, <2>3, ServiceTwo DEF Orders
    <3>2. c = "E" => c \notin given2
      BY <1>5 DEF IInv, Partitions
    <3>3. given2' = given2 \cup {c}
      BY <1>1, <2>3, <3>1 DEF Order
    <3>4. pops2' \in TwoP!Services
      BY <2>1, <2>3, <3>1, TwoP!OrderType
    <3>6. TwoP!Told(pops2', given2 \cup {c}, orphan2) /\ pops2'.host = pops2.host
      BY <1>6, <2>1, <2>3, <3>1, <3>2, TwoP!OrderTold
    <3>7. TwoP!Told(pops2', given2', orphan2)
      BY <3>3, <3>6
    <3> QED
      BY <3>4, <3>6, <3>7, ServiceTwo
  <2> QED
    BY <1>5, <2>2, <2>3
<1>9. TypeOK'
  <2>1. wait'[1] = step1.wait /\ wait'[2] = step2.wait /\ wait'[3] = step3.wait
    BY <1>1
  <2> QED
    BY <1>1, <1>2, <1>3, <1>4, <1>5, <1>6, <1>7, <1>8, <2>1
       DEF TypeOK, P1States, P2States, P3States, pastVars
<1>10. Partitions'
  <2>1. pops.Srvr = active => wasActive
    BY ServiceOne DEF IInv, ServicesTold, OneP!Seen, active
  <2>2. /\ "B" \in given' <=> "B" \in given \/ step2.order = "B"
        /\ "E" \in given' <=> "E" \in given \/ step2.order = "E"
        /\ "B" \in given2' <=> "B" \in given2 \/ step3.order = "B"
        /\ "E" \in given2' <=> "E" \in given2 \/ step3.order = "E"
    BY <1>1, <1>6
  <2>3. wasActive' = wasActive
    BY <1>1 DEF pastVars
  <2>4. Partitions
    BY DEF IInv
  <2> QED
    BY <1>1, <1>3, <1>4, <1>5, <2>1, <2>2, <2>3, <2>4 DEF Partitions
<1>11. ServicesTold'
  BY <1>1, <1>7, <1>8 DEF ServicesTold, pastVars
<1> QED
  BY <1>7, <1>8, <1>9, <1>10, <1>11 DEF IInv

\* A step of the first driver or instrument.
LEMMA FirstKeeps ==
  ASSUME IInv, First
  PROVE  /\ IInv' /\ pops2' = pops2
         /\ HaltsUnderSoftware(pops, pops') => orphan
<1>1. /\ One!Driver \/ One!Instrument
      /\ wasActive' = (wasActive \/ pops'.status = active)
      /\ UNCHANGED <<pops2, climbed, algoVars, orphan, orphan2>>
  BY DEF First
<1>2. /\ pops \in OneP!Services /\ OneP!Seen(pops, wasActive)
      /\ OneP!Told(pops, given, orphan) /\ TwoP!Told(pops2, given2, orphan2)
      /\ wasActive \in BOOLEAN /\ orphan \in BOOLEAN
      /\ TypeOK /\ Partitions
  BY ServiceOne DEF IInv, TypeOK, ServicesTold
<1>3. "E" \in Orders /\ "F" \notin Orders /\ OneP!POPS_active = active
  BY ServiceOne DEF Orders, active
<1>4. /\ pops' \in OneP!Services /\ OneP!Told(pops', given, orphan)
      /\ OneP!Seen(pops', wasActive')
      /\ HaltsUnderSoftware(pops, pops') => orphan
  <2>1. CASE One!Driver
    <3>1. OneP!Driver
      BY <2>1, ServiceOne
    <3>2. pops' \in OneP!Services
      BY <1>2, <3>1, OneP!DriverType
    <3>3. OneP!Told(pops', given, orphan) /\ pops'.host = pops.host
      BY <1>2, <3>1, OneP!DriverTold
    <3>4. OneP!Seen(pops', wasActive)
      BY <1>2, <3>1, OneP!DriverSeen
    <3> QED
      BY <1>1, <3>2, <3>3, <3>4 DEF OneP!Seen, HaltsUnderSoftware
  <2>2. CASE One!Instrument
    <3>1. OneP!Instrument
      BY <2>2, ServiceOne
    <3>2. pops' \in OneP!Services
      BY <1>2, <3>1, OneP!InstrumentType
    <3>3. /\ OneP!Told(pops', given, orphan)
          /\ HaltsUnderSoftware(pops, pops') => orphan
      BY <1>2, <1>3, <3>1, OneP!InstrumentTold DEF HaltsUnderSoftware
    <3>4. OneP!Seen(pops', wasActive')
      BY <1>1, <1>2, <1>3, <3>1, OneP!InstrumentSeen
    <3> QED
      BY <3>2, <3>3, <3>4
  <2> QED
    BY <1>1, <2>1, <2>2
<1>5. TypeOK'
  <2>1. pops' \in One!Services /\ wasActive' \in BOOLEAN
    BY <1>1, <1>2, <1>4, ServiceOne
  <2> QED
    BY <1>1, <1>2, <2>1 DEF TypeOK, algoVars
<1>6. Partitions'
  BY <1>1, <1>2 DEF Partitions, algoVars
<1>7. ServicesTold'
  BY <1>1, <1>2, <1>4 DEF ServicesTold, algoVars
<1> QED
  BY <1>1, <1>4, <1>5, <1>6, <1>7 DEF IInv

\* A step of the second one.
LEMMA OtherKeeps ==
  ASSUME IInv, Other
  PROVE  /\ IInv' /\ pops' = pops
         /\ HaltsUnderSoftware(pops2, pops2') => orphan2
<1>1. /\ Two!Driver \/ Two!Instrument
      /\ UNCHANGED <<pops, climbed, algoVars, pastVars>>
  BY DEF Other
<1>2. /\ pops2 \in TwoP!Services /\ TwoP!Told(pops2, given2, orphan2)
      /\ orphan2 \in BOOLEAN
      /\ TypeOK /\ Partitions /\ ServicesTold
  BY ServiceTwo DEF IInv, TypeOK, ServicesTold
<1>3. "E" \in Orders /\ "F" \notin Orders
  BY DEF Orders
<1>4. /\ pops2' \in TwoP!Services /\ TwoP!Told(pops2', given2, orphan2)
      /\ HaltsUnderSoftware(pops2, pops2') => orphan2
  <2>1. CASE Two!Driver
    <3>1. TwoP!Driver
      BY <2>1, ServiceTwo
    <3>2. pops2' \in TwoP!Services
      BY <1>2, <3>1, TwoP!DriverType
    <3>3. TwoP!Told(pops2', given2, orphan2) /\ pops2'.host = pops2.host
      BY <1>2, <3>1, TwoP!DriverTold
    <3> QED
      BY <3>2, <3>3 DEF HaltsUnderSoftware
  <2>2. CASE Two!Instrument
    <3>1. TwoP!Instrument
      BY <2>2, ServiceTwo
    <3>2. pops2' \in TwoP!Services
      BY <1>2, <3>1, TwoP!InstrumentType
    <3> QED
      BY <1>2, <1>3, <3>1, <3>2, TwoP!InstrumentTold DEF HaltsUnderSoftware
  <2> QED
    BY <1>1, <2>1, <2>2
<1>5. TypeOK'
  <2>1. pops2' \in Two!Services
    BY <1>4, ServiceTwo
  <2> QED
    BY <1>1, <1>2, <2>1 DEF TypeOK, algoVars, pastVars
<1>6. Partitions'
  BY <1>1, <1>2 DEF Partitions, algoVars, pastVars
<1>7. ServicesTold'
  BY <1>1, <1>2, <1>4 DEF ServicesTold, algoVars, pastVars
<1> QED
  BY <1>1, <1>4, <1>5, <1>6, <1>7 DEF IInv

\* No step breaks the invariant, and none halts a computer under software of
\* this run.
Gentle ==
  /\ HaltsUnderSoftware(pops, pops') => orphan
  /\ HaltsUnderSoftware(pops2, pops2') => orphan2

\* Every second of the algorithm and every step of a driver or an instrument
\* keeps the invariant, and halts no computer under its software.
LEMMA NextKeeps == IInv /\ [Next]_vars => IInv' /\ Gentle
<1> SUFFICES ASSUME IInv, [Next]_vars PROVE IInv' /\ Gentle
  OBVIOUS
<1>1. ASSUME NEW shut \in BOOLEAN, Second(shut) PROVE IInv' /\ Gentle
  BY <1>1, SecondKeeps DEF Gentle, HaltsUnderSoftware
<1>2. CASE First
  BY <1>2, FirstKeeps DEF Gentle, HaltsUnderSoftware
<1>3. CASE Other
  BY <1>3, OtherKeeps DEF Gentle, HaltsUnderSoftware
<1>4. CASE Sample
  BY <1>4 DEF Sample, IInv, TypeOK, Partitions, ServicesTold, Gentle,
              HaltsUnderSoftware, algoVars, pastVars
<1>5. CASE UNCHANGED vars
  BY <1>5 DEF vars, IInv, TypeOK, Partitions, ServicesTold, Gentle,
              HaltsUnderSoftware, algoVars, pastVars
<1> QED
  BY <1>1, <1>2, <1>3, <1>4, <1>5 DEF Next

-----------------------------------------------------------------------------
(* The theorems.                                                           *)

\* The partitions agree with the orders they gave, and those with what the
\* services did, at all times.
THEOREM Invariant == Spec => []IInv
BY InitIInv, NextKeeps, PTL DEF Spec

\* Every variable has its type, for every length of the waits.
THEOREM AlgoTypeCorrect == Spec => []TypeOK
<1>1. IInv => TypeOK
  BY DEF IInv
<1> QED
  BY <1>1, Invariant, PTL

\* POPS2 Start is given only after the first server was active.
THEOREM LaunchOrder == Spec => []LaunchesInOrder
<1>1. IInv => LaunchesInOrder
  BY DEF IInv, Partitions, LaunchesInOrder
<1> QED
  BY <1>1, Invariant, PTL

\* POPS2_Init is left before POPS Start ends the status it waits for.
THEOREM SecondIsIdleInTime == Spec => []SecondNotForgotten
<1>1. IInv => SecondNotForgotten
  BY DEF IInv, Partitions, SecondNotForgotten
<1> QED
  BY <1>1, Invariant, PTL

\* The shutdown reaches both instruments before the algorithm quits.
THEOREM OrdersBeforeQuit == Spec => []QuitAfterOrders
<1>1. IInv => QuitAfterOrders
  BY DEF IInv, TypeOK, Partitions, QuitAfterOrders, Down
<1> QED
  BY <1>1, Invariant, PTL

\* No computer is halted under software that this run of the algorithm started.
THEOREM GentleShutdown == Spec => GentleHalts
<1>1. IInv /\ [Next]_vars => [Gentle]_vars
  BY NextKeeps
<1> QED
  BY <1>1, Invariant, PTL DEF Spec, GentleHalts, Gentle
=============================================================================
