-------------------------- MODULE PopsServiceProofs --------------------------
(***************************************************************************)
(* Theorems of module PopsService: what its steps keep, for any orders.    *)
(***************************************************************************)
EXTENDS PopsService, TLAPS

\* The statuses of POPS_status_t.
LEMMA StatusesAre ==
  POPS_idle \in Statuses /\ POPS_active \in Statuses /\ POPS_shutdown \in Statuses
BY DEF Statuses

\* A step of the driver leaves a service.
LEMMA DriverType ==
  ASSUME svc \in Services, Driver
  PROVE  svc' \in Services
<1>1. CASE Contact
  BY <1>1 DEF Contact, Services
<1>2. CASE Read
  <2>1. PICK k \in 1 .. Len(svc.news) :
          svc' = [svc EXCEPT !.Srvr = svc.news[k],
                             !.news = SubSeq(@, k + 1, Len(@))]
    BY <1>2 DEF Read
  <2>2. svc.news \in Seq(Statuses)
    BY DEF Services
  <2>3. svc.news[k] \in Statuses
    BY <2>2
  <2>4. SubSeq(svc.news, k + 1, Len(svc.news)) \in Seq(Statuses)
    BY <2>2
  <2> QED
    BY <2>1, <2>3, <2>4 DEF Services
<1> DEFINE none == <<>>
<1>5. none \in Seq(Statuses)
  OBVIOUS
<1> HIDE DEF none
<1>3. CASE LoseContact
  <2>1. svc' = [svc EXCEPT !.contact = FALSE, !.news = none, !.Srvr = 0]
    BY <1>3 DEF LoseContact, none
  <2> QED
    BY <1>5, <2>1 DEF Services
<1>4. CASE Quit
  <2>1. svc' = [svc EXCEPT !.quit = TRUE, !.contact = FALSE, !.news = none]
    BY <1>4 DEF Quit, none
  <2> QED
    BY <1>5, <2>1 DEF Services
<1> QED
  BY <1>1, <1>2, <1>3, <1>4 DEF Driver

\* An order that is executed is not on its way any more.
LEMMA Spent ==
  ASSUME svc \in Services, NEW c, Executes(c)
  PROVE  [svc.sent EXCEPT ![c] = @ - 1] \in [Orders -> Nat]
BY DEF Executes, Services

\* A step of the server or the instrument leaves a service.
LEMMA InstrumentType ==
  ASSUME svc \in Services, Instrument
  PROVE  svc' \in Services
<1>1. CASE Start
  <2> DEFINE spent == [svc.sent EXCEPT !["B"] = @ - 1]
  <2>1. spent \in [Orders -> Nat]
    BY <1>1, Spent DEF Start
  <2>2. PICK p \in {"off", "run"} :
          svc' = [svc EXCEPT !.sent = spent, !.status = POPS_active, !.prog = p]
    BY <1>1 DEF Start, Services
  <2> QED
    BY <2>1, <2>2, StatusesAre DEF Services
<1>2. CASE Shutdown
  <2> DEFINE spent == [svc.sent EXCEPT !["E"] = @ - 1]
  <2>1. spent \in [Orders -> Nat]
    BY <1>2, Spent DEF Shutdown
  <2>2. PICK h \in {"up", "halting", "off"} :
          svc' = [svc EXCEPT !.sent = spent, !.status = POPS_shutdown, !.host = h]
    BY <1>2 DEF Shutdown, Services
  <2> QED
    BY <2>1, <2>2, StatusesAre DEF Services
<1>3. CASE ForcedShutdown
  <2> DEFINE spent == [svc.sent EXCEPT !["F"] = @ - 1]
  <2>1. spent \in [Orders -> Nat]
    BY <1>3, Spent DEF ForcedShutdown
  <2>2. svc' = [svc EXCEPT !.sent = spent, !.status = POPS_shutdown, !.host = "halting"]
    BY <1>3 DEF ForcedShutdown, Services
  <2> QED
    BY <2>1, <2>2, StatusesAre DEF Services
<1>4. CASE Report
  <2>1. Append(svc.news, svc.status) \in Seq(Statuses)
    BY DEF Services
  <2> QED
    BY <1>4, <2>1 DEF Report, Services
<1>5. CASE Ends
  BY <1>5 DEF Ends, Services
<1>6. CASE Stops
  <2>1. NoOrders \in [Orders -> Nat]
    BY DEF NoOrders
  <2> QED
    BY <1>6, <2>1 DEF Stops, Services
<1>7. CASE Boots
  BY <1>7, StatusesAre DEF Boots, Services
<1> QED
  BY <1>1, <1>2, <1>3, <1>4, <1>5, <1>6, <1>7 DEF Instrument

\* An order that is given leaves a service.
LEMMA OrderType ==
  ASSUME svc \in Services, NEW c \in Orders, Order(c)
  PROVE  svc' \in Services
<1>1. [svc.sent EXCEPT ![c] = @ + 1] \in [Orders -> Nat]
  BY DEF Services
<1> QED
  BY <1>1 DEF Order, Services

-----------------------------------------------------------------------------
(* What is shown.                                                          *)

\* The service's type.
ServiceType == svc \in Services

\* The service of a driver and its server keeps its type, whatever orders are
\* given.
THEOREM ServiceTypeCorrect == Spec => []ServiceType
<1>1. Init => ServiceType
  <2>1. NoOrders \in [Orders -> Nat] /\ <<>> \in Seq(Statuses)
    BY DEF NoOrders
  <2> QED
    BY <2>1, StatusesAre DEF Init, Fresh, Services, ServiceType
<1>2. ServiceType /\ [Next]_svc => ServiceType'
  BY DriverType, InstrumentType, OrderType DEF Next, ServiceType
<1> QED
  BY <1>1, <1>2, PTL DEF Spec

\* Without contact no status is on its way, and none is shown but the last one
\* of a driver that ended.
ShownInContact ==
  ~svc.contact => svc.news = <<>> /\ (svc.quit \/ svc.Srvr = 0)

\* POPS_client::reset() sets the status back when contact is lost, so no frame
\* shows an old status as a new one.
THEOREM NothingWithoutContact == Spec => []ShownInContact
<1>1. Init => ShownInContact
  BY DEF Init, Fresh, ShownInContact
<1>2. ServiceType /\ ShownInContact /\ [Next]_svc => ShownInContact'
  <2> SUFFICES ASSUME svc \in Services, ShownInContact, [Next]_svc
               PROVE  ShownInContact'
    BY DEF ServiceType
  <2>1. CASE Driver
    BY <2>1 DEF Driver, Contact, Read, LoseContact, Quit, ShownInContact, Services
  <2>2. CASE Instrument
    BY <2>2 DEF Instrument, Start, Shutdown, ForcedShutdown, Report, Ends,
                Stops, Boots, ShownInContact, Services
  <2>3. CASE \E c \in Orders : Order(c)
    BY <2>3 DEF Order, ShownInContact, Services
  <2>4. CASE UNCHANGED svc
    BY <2>4 DEF ShownInContact
  <2> QED
    BY <2>1, <2>2, <2>3, <2>4 DEF Next
<1> QED
  BY <1>1, <1>2, ServiceTypeCorrect, PTL DEF Spec

-----------------------------------------------------------------------------
(* What follows from one order E, and none F.                              *)

\* The instrument s, which was given the orders told, E once at most, is not
\* halted by it under running software, but for software that was not to run
\* before (before).
Told(s, told, before) ==
  /\ s.host = "off" => s.prog = "off"
  /\ s.sent["E"] <= 1
  /\ "E" \in told \/ s.sent["E"] = 0
  /\ ~before /\ s.prog = "run" /\ ("E" \in told => s.sent["E"] > 0)
       => s.status = POPS_active

\* The driver only reads: it changes nothing of the instrument.
LEMMA DriverTold ==
  ASSUME svc \in Services, Driver, NEW told,
         NEW before \in BOOLEAN, Told(svc, told, before)
  PROVE  /\ Told(svc', told, before)
         /\ svc'.host = svc.host
<1>1. /\ svc'.host = svc.host /\ svc'.prog = svc.prog
      /\ svc'.status = svc.status /\ svc'.sent = svc.sent
  BY DEF Driver, Contact, Read, LoseContact, Quit, Services
<1> QED
  BY <1>1 DEF Told

\* A server that was told to shut down once, and is never forced, halts its
\* computer only without software, or under software that does not end.
LEMMA InstrumentTold ==
  ASSUME svc \in Services, Instrument, "E" \in Orders, "F" \notin Orders,
         NEW told, NEW before \in BOOLEAN,
         Told(svc, told, before)
  PROVE  /\ Told(svc', told, before)
         /\ svc.host = "up" /\ svc'.host = "halting" /\ svc.prog = "run"
              => before
<1>1. svc.sent \in [Orders -> Nat]
  BY DEF Services
<1>2. CASE Start
  <2>1. /\ svc'.host = svc.host /\ svc.host # "off"
        /\ svc'.status = POPS_active /\ svc'.sent["E"] = svc.sent["E"]
    BY <1>1, <1>2 DEF Start, Executes, Running, Services
  <2> QED
    BY <2>1 DEF Told
<1>3. CASE Shutdown
  <2>1. /\ svc'.prog = svc.prog /\ svc'.sent["E"] = svc.sent["E"] - 1
        /\ svc.sent["E"] > 0 /\ svc.host # "off" /\ svc'.host # "off"
        /\ svc'.host = IF Halts THEN "halting" ELSE svc.host
    BY <1>1, <1>3 DEF Shutdown, Executes, Running, Services
  <2>2. svc'.sent["E"] = 0 /\ "E" \in told
    BY <1>1, <2>1 DEF Told
  <2> QED
    BY <1>1, <2>1, <2>2 DEF Told, Halts
<1>4. CASE ForcedShutdown
  BY <1>4 DEF ForcedShutdown, Executes
<1>5. CASE Report
  BY <1>5 DEF Report, Told, Services
<1>6. CASE Ends
  BY <1>6 DEF Ends, Told, Services
<1>7. CASE Stops
  BY <1>7 DEF Stops, NoOrders, Told, Services
<1>8. CASE Boots
  BY <1>8 DEF Boots, Running, Told, Services
<1> QED
  BY <1>2, <1>3, <1>4, <1>5, <1>6, <1>7, <1>8 DEF Instrument

\* An order that was not given before is one more that was given.
LEMMA OrderTold ==
  ASSUME svc \in Services, NEW c \in Orders, Order(c), "E" \in Orders,
         NEW told, NEW before \in BOOLEAN,
         Told(svc, told, before), c = "E" => c \notin told
  PROVE  /\ Told(svc', told \cup {c}, before)
         /\ svc'.host = svc.host
<1>1. svc.sent \in [Orders -> Nat]
  BY DEF Services
<1>2. /\ svc'.host = svc.host /\ svc'.prog = svc.prog
      /\ svc'.status = svc.status
      /\ svc'.sent["E"] = svc.sent["E"] \/ (c = "E" /\ svc'.sent["E"] = svc.sent["E"] + 1)
  BY <1>1 DEF Order, Services
<1> QED
  BY <1>1, <1>2 DEF Told

-----------------------------------------------------------------------------
(* What follows from a status that was shown.                              *)

\* What is shown as active, or on its way, was active once.
Seen(s, was) ==
  s.status = POPS_active \/ s.Srvr = POPS_active
    \/ (\E k \in 1 .. Len(s.news) : s.news[k] = POPS_active) => was

\* What the driver shows was on its way.
LEMMA DriverSeen ==
  ASSUME svc \in Services, Driver, NEW was \in BOOLEAN, Seen(svc, was)
  PROVE  Seen(svc', was)
<1>1. svc.news \in Seq(Statuses)
  BY DEF Services
<1>2. CASE Contact
  BY <1>2 DEF Contact, Seen, Services
<1>3. CASE Read
  <2>1. PICK k \in 1 .. Len(svc.news) :
          svc' = [svc EXCEPT !.Srvr = svc.news[k],
                             !.news = SubSeq(@, k + 1, Len(@))]
    BY <1>3 DEF Read
  <2>2. /\ svc'.status = svc.status /\ svc'.Srvr = svc.news[k]
        /\ svc'.news = SubSeq(svc.news, k + 1, Len(svc.news))
    BY <2>1 DEF Services
  <2>3. ASSUME NEW j \in 1 .. Len(svc'.news)
        PROVE  j + k \in 1 .. Len(svc.news) /\ svc'.news[j] = svc.news[j + k]
    BY <1>1, <2>2
  <2> QED
    BY <2>2, <2>3 DEF Seen
<1>4. CASE LoseContact
  BY <1>4 DEF LoseContact, Seen, Services, POPS_active
<1>5. CASE Quit
  BY <1>5 DEF Quit, Seen, Services
<1> QED
  BY <1>2, <1>3, <1>4, <1>5 DEF Driver

\* What is on its way is what the server said.
LEMMA InstrumentSeen ==
  ASSUME svc \in Services, Instrument, NEW was \in BOOLEAN, Seen(svc, was)
  PROVE  Seen(svc', was \/ svc'.status = POPS_active)
<1>1. svc.news \in Seq(Statuses)
  BY DEF Services
<1>2. CASE Report
  <2>1. /\ svc'.status = svc.status /\ svc'.Srvr = svc.Srvr
        /\ svc'.news = Append(svc.news, svc.status)
    BY <1>2 DEF Report, Services
  <2>2. ASSUME NEW j \in 1 .. Len(svc'.news)
        PROVE  svc'.news[j] = svc.status
               \/ (j \in 1 .. Len(svc.news) /\ svc'.news[j] = svc.news[j])
    BY <1>1, <2>1
  <2> QED
    BY <2>1, <2>2 DEF Seen
<1>3. CASE ~Report
  <2>1. svc'.Srvr = svc.Srvr /\ svc'.news = svc.news
    BY <1>3 DEF Instrument, Start, Shutdown, ForcedShutdown, Ends, Stops, Boots,
                Services
  <2>2. svc'.status = POPS_active \/ svc'.status # POPS_active
    OBVIOUS
  <2> QED
    BY <2>1, <2>2 DEF Seen
<1> QED
  BY <1>2, <1>3

\* An order changes no status.
LEMMA OrderSeen ==
  ASSUME svc \in Services, NEW c \in Orders, Order(c),
         NEW was \in BOOLEAN, Seen(svc, was)
  PROVE  Seen(svc', was)
<1>1. svc'.status = svc.status /\ svc'.Srvr = svc.Srvr /\ svc'.news = svc.news
  BY DEF Order, Services
<1> QED
  BY <1>1 DEF Seen
=============================================================================
