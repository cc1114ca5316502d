------------------------------ MODULE CosmidAlgo ------------------------------
(***************************************************************************)
(* The payload's algorithm, src/TM/cosmid.tma: three partitions that start *)
(* the two POPS instruments one after the other, and shut both down when   *)
(* the ground says so, by the statuses in the telemetry.  Drivers and      *)
(* instruments are two instances of PopsService, whose promises module     *)
(* Pops keeps.                                                             *)
(*                                                                         *)
(* The algorithm's interpreter (tmcalgo) is external: once a second, with  *)
(* the telemetry frame, it evaluates the valid state of each partition, P1 *)
(* first; a "Validate" takes effect at once.  A state that waits inside    *)
(* its list of commands is one state for each command it waits before.     *)
(***************************************************************************)
EXTENDS Naturals, Sequences, FiniteSets

CONSTANTS
  StartAfter,  \* the 4 seconds before "> POPS Start"
  ClimbAfter,  \* the 5 seconds before the pressure is looked at
  HoldFor,     \* the 10 seconds a shutdown waits
  MaxNews,     \* as in PopsService
  MaxStops,    \* bound: times a computer stops
  MaxQuits     \* bound: drivers that end

ASSUME AlgoAssumption ==
  /\ {StartAfter, ClimbAfter, HoldFor} \subseteq Nat \ {0}
  /\ {MaxNews, MaxStops, MaxQuits} \subseteq Nat

\* pops and pops2 are the services; climbed says that the pressure in the frame
\* of the first is less than 750; P1, P2 and P3 are the partitions; wait is the
\* seconds each waited.
\* History: given and given2 are the orders given; wasActive says that the
\* first instrument's status ever was POPS_active, orphan and orphan2 that an
\* earlier run shut the instrument's software down without success; stops
\* counts the computers that stopped.
VARIABLES pops, pops2, climbed, P1, P2, P3, wait,
          given, given2, wasActive, orphan, orphan2, stops

algoVars == <<P1, P2, P3, wait, given, given2>>
pastVars == <<wasActive, orphan, orphan2>>
vars == <<pops, pops2, climbed, algoVars, pastVars, stops>>

Orders == {"B", "E"}
One == INSTANCE PopsService WITH svc <- pops
Two == INSTANCE PopsService WITH svc <- pops2

idle == One!POPS_idle
active == One!POPS_active
shutdown == One!POPS_shutdown

\* An instrument as an earlier run left it.
Left ==
  {[One!Fresh EXCEPT !.status = s, !.prog = p] : s \in {active, shutdown},
     p \in {"off", "run"}} \cup {One!Fresh}
IsOrphan(s) == s.prog = "run" /\ s.status = shutdown

Init ==
  /\ pops \in Left /\ pops2 \in Left 
  /\ climbed = TRUE   \* the frame holds the pressure 0 before any sample
  /\ P1 = "Init" /\ P2 = "POPS1_Init" /\ P3 = "POPS2_Init"
  /\ wait = [p \in 1 .. 3 |-> 0]
  /\ given = {} /\ given2 = {} /\ stops = 0
  /\ wasActive = (pops.status = active)
  /\ orphan = IsOrphan(pops) /\ orphan2 = IsOrphan(pops2)

-----------------------------------------------------------------------------
(* The partitions.  A step is the state it leads to, the seconds waited    *)
(* there and the order it gives.                                           *)

Goes(state) == [state |-> state, wait |-> 0, order |-> "none"]
GoesWith(state, order) == [Goes(state) EXCEPT !.order = order]
Waits(state, secs, most) ==
  [Goes(state) EXCEPT !.wait = IF secs < most THEN secs + 1 ELSE most]

Down == {"Shutdown", "Quitting", "Quit"}
POPS1_Init == {"POPS1_Init", "Starting", "Started"}
POPS2_Idle == {"POPS2_Idle", "Climbing", "Starting", "Started"}

\* Hold until (POPS_srvr == 1 && POPS2_srvr == 1) or 10.
Waited == (pops.Srvr = idle /\ pops2.Srvr = idle) \/ wait[1] = HoldFor

\* SWStat says in shut that the ground asked for a shutdown.
P1Step(shut) ==
  CASE shut /\ P1 \notin Down -> Goes("Shutdown")
    [] P1 = "Init" /\ ~shut /\ P2 = "POPS1_Active" /\ P3 \in POPS2_Idle ->
         Goes("LaunchHold")
    [] P1 = "LaunchHold" /\ ~shut /\ P3 = "POPS2_Active" -> Goes("Flight")
    [] P1 = "Shutdown" /\ ~Waited -> Waits(P1, wait[1], HoldFor)
    [] P1 = "Shutdown" /\ Waited -> Goes("Quitting")
    [] P1 = "Quitting" -> Goes("Quit")
    [] OTHER -> Goes(P1)

\* P2, the first instrument: its initial state does not depend on Shutdown.
P2Step(down) ==
  LET found == P2 \in POPS1_Init /\ pops.Srvr = active
  IN CASE down /\ (found \/ P2 = "POPS1_Active") ->
            GoesWith("POPS1_Shutdown", "E")
       [] ~down /\ found -> Goes("POPS1_Active")
       [] P2 = "POPS1_Init" /\ pops.Srvr = idle -> Goes("Starting")
       [] P2 = "Starting" /\ ~found /\ wait[2] + 1 < StartAfter ->
            Waits(P2, wait[2], StartAfter)
       [] P2 = "Starting" /\ ~found /\ wait[2] + 1 >= StartAfter ->
            GoesWith("Started", "B")
       [] OTHER -> Goes(P2)

\* Mutants: the second instrument waits for its own status; the first one's
\* status is not looked at; a state that does not depend on Shutdown.
MayIdleOwn == pops2.Srvr = idle
MayIdle == pops.Srvr = idle
MayClimbAnyway == TRUE
MayClimb == pops.Srvr = active
DependsOnShutdownActive == P3 = "POPS2_Active"
DependsOnShutdown == P3 # "POPS2_Shutdown"

\* P3, the second instrument, which waits for the first.
P3Step(down) ==
  LET found == P3 \in POPS2_Idle \cup {"POPS2_Init"} /\ pops2.Srvr = active
      at(state) == P3 = state /\ ~down /\ ~found
  IN CASE down /\ DependsOnShutdown -> GoesWith("POPS2_Shutdown", "E")
       [] ~down /\ found -> Goes("POPS2_Active")
       [] at("POPS2_Init") /\ MayIdle -> Goes("POPS2_Idle")
       [] at("POPS2_Idle") /\ MayClimb -> Goes("Climbing")
       [] at("Climbing") /\ wait[3] = ClimbAfter /\ climbed -> Goes("Starting")
       [] at("Climbing") /\ (wait[3] < ClimbAfter \/ ~climbed) ->
            Waits(P3, wait[3], ClimbAfter)
       [] at("Starting") -> GoesWith("Started", "B")
       [] OTHER -> Goes(P3)

\* The orders go to the drivers.
Order(step) == IF step.order = "none" THEN {} ELSE {step.order}
Gives(step2, step3) ==
  /\ given' = given \cup Order(step2) /\ given2' = given2 \cup Order(step3)
  /\ IF Order(step2) = {} THEN UNCHANGED pops
     ELSE One!Order(step2.order)
  /\ IF Order(step3) = {} THEN UNCHANGED pops2
     ELSE Two!Order(step3.order)

\* One second of the algorithm.
Second(shut) ==
  LET step1 == P1Step(shut)
      step2 == P2Step(step1.state \in Down)
      step3 == P3Step(step1.state \in Down)
  IN /\ P1 # "Quit"
     /\ P1' = step1.state /\ P2' = step2.state /\ P3' = step3.state
     /\ wait' = <<step1.wait, step2.wait, step3.wait>>
     /\ Gives(step2, step3)
     /\ UNCHANGED <<climbed, pastVars, stops>>

-----------------------------------------------------------------------------
(* The drivers, the instruments and the air.                               *)

Ended == Cardinality({s \in {<<1, pops>>, <<2, pops2>>} : s[2].quit})
Stopped(before, after) ==
  IF before.host # "off" /\ after.host = "off" THEN 1 ELSE 0

Bounded ==
  /\ stops' = stops + Stopped(pops, pops') + Stopped(pops2, pops2')
  /\ stops' <= MaxStops
  /\ Ended' <= MaxQuits

First ==
  /\ One!Driver \/ One!Instrument
  /\ wasActive' = (wasActive \/ pops'.status = active)
  /\ UNCHANGED <<pops2, climbed, algoVars, orphan, orphan2>>
  /\ Bounded

Other ==
  /\ Two!Driver \/ Two!Instrument
  /\ UNCHANGED <<pops, climbed, algoVars, pastVars>>
  /\ Bounded

\* A sample of the first instrument reaches the frame; its pressure stays there
\* until the next one.
Sample ==
  /\ pops.prog = "run" /\ ~pops.quit
  /\ climbed' \in BOOLEAN
  /\ UNCHANGED <<pops, pops2, algoVars, pastVars, stops>>

Next == (\E shut \in BOOLEAN : Second(shut)) \/ First \/ Other \/ Sample

Spec == Init /\ [][Next]_vars

-----------------------------------------------------------------------------
(* What must hold of it.                                                   *)

\* Every variable has its type.
TypeOK ==
  /\ P1 \in Down \cup {"Init", "LaunchHold", "Flight"}
  /\ P2 \in POPS1_Init \cup {"POPS1_Active", "POPS1_Shutdown"}
  /\ P3 \in POPS2_Idle \cup {"POPS2_Init", "POPS2_Active", "POPS2_Shutdown"}
  /\ wait[1] \in 0 .. HoldFor /\ wait[2] \in 0 .. StartAfter
  /\ wait[3] \in 0 .. ClimbAfter
  /\ wasActive \in BOOLEAN /\ orphan \in BOOLEAN /\ orphan2 \in BOOLEAN
  /\ pops \in One!Services /\ pops2 \in Two!Services
  /\ climbed \in BOOLEAN
  /\ given \subseteq Orders /\ given2 \subseteq Orders

\* The second instrument is started only after the server of the first one
\* was active, whatever became of statuses, connections and computers since.
LaunchesInOrder == "B" \in given2 => wasActive

\* When the algorithm starts the first instrument, the second one is not left
\* waiting for the first to be idle.
SecondNotForgotten == "B" \in given => P3 # "POPS2_Init"

\* The algorithm does not quit before both instruments were told to shut down,
\* except the first one when it was never seen active.
QuitAfterOrders ==
  P1 = "Quit" => "E" \in given2 /\ ("E" \in given \/ P2 \in POPS1_Init)

\* The algorithm halts no computer under running software, but for one that an
\* earlier run tried to shut down.
HaltsUnderSoftware(s, t) ==
  s.host = "up" /\ t.host = "halting" /\ s.prog = "run"
GentleHalts ==
  [][/\ HaltsUnderSoftware(pops, pops') => orphan
     /\ HaltsUnderSoftware(pops2, pops2') => orphan2]_vars
=============================================================================
