--------------------------- MODULE ServiceProofs ---------------------------
(***************************************************************************)
(* Theorems about Service: how a stop ends, for all values of the bounds   *)
(* with ShutdownBound < StopBound, however long the lookup may take.       *)
(***************************************************************************)
EXTENDS Service, TLAPS

(* Which goroutines there are in which state of Run.                       *)
RunInv ==
    /\ run \in {"loading", "failed"} =>
           engine = "none" /\ announce = "none" /\ gateway = "none"
    /\ run \in {"waiting", "returned"} => engine # "none"
    /\ run = "returned" => AllDone
    /\ announce # "none" => announces

(* Only Stop cancels, and nothing ends the engine before that.             *)
CancelInv ==
    /\ cancelled <=> process # "up"
    /\ engine = "off" \/ gateway = "closing" => cancelled
    /\ ~cancelled => clock["stop"] = 0

(* What the clocks say of each other: nobody but the lookup and Shutdown   *)
(* lets time pass after Stop has been called.                              *)
ClockInv ==
    /\ cancelled /\ (engine = "on" \/ gateway = "serving") => clock["stop"] = 0
    /\ gateway \in {"none", "serving"} => clock["shutdown"] = 0
    /\ gateway = "closing" => clock["shutdown"] = clock["stop"]
    /\ announce \in {"lookup", "sending"} => clock["lookup"] >= clock["stop"]
    /\ cancelled /\ run = "loading" => clock["stop"] = 0
    /\ cancelled /\ run = "waiting" =>
           \/ clock["stop"] <= ShutdownBound
           \/ announces /\ clock["lookup"] >= clock["stop"]

ExitInv ==
    process = "exited" => run \in {"failed", "returned"} \/ clock["stop"] >= StopBound

(* Shutdown leaves a handler alone only when its time is up.               *)
TestInv ==
    test = "busy" =>
        \/ gateway \in {"serving", "closing", "failed"}
        \/ gateway = "off" /\ clock["shutdown"] >= ShutdownBound

IInv == TypeOK /\ RunInv /\ CancelInv /\ ClockInv /\ ExitInv /\ TestInv

USE DEF Timers

LEMMA InitHolds == ASSUME ServiceAssumption, Init PROVE IInv
<1>1. clock \in [Timers -> Nat] /\ \A t \in Timers : clock[t] = 0
  BY DEF Init
<1>2. TypeOK
  <2>1. /\ StopBound \in Nat /\ ShutdownBound \in Nat /\ LookupBound \in Nat
        /\ TestBound \in Nat
    BY DEF ServiceAssumption, TestBound
  <2>2. /\ clock["stop"] = 0 /\ clock["shutdown"] = 0 /\ clock["lookup"] = 0
        /\ clock["test"] = 0
    BY <1>1
  <2>3. /\ clock["stop"] <= StopBound /\ clock["shutdown"] <= ShutdownBound
        /\ clock["lookup"] <= LookupBound /\ clock["test"] <= TestBound
    BY ONLY <2>1, <2>2
  <2> QED
    BY <1>1, <2>3, Zenon DEF Init, TypeOK
<1>3. RunInv /\ CancelInv /\ ClockInv /\ ExitInv /\ TestInv
  BY <1>1 DEF ServiceAssumption, Init, RunInv, CancelInv, ClockInv, ExitInv, TestInv
<1> QED
  BY <1>2, <1>3 DEF IInv

(* The steps of the program take no time.                                  *)
LEMMA StepHolds ==
    ASSUME ServiceAssumption, IInv, [Next]_vars, ~Tick PROVE IInv'
<1> USE DEF IInv, TypeOK, RunInv, CancelInv, ClockInv, ExitInv, TestInv, Alive, AllDone,
            GatewayIsOff, ServiceAssumption
<1>1. CASE RunFails
  BY <1>1 DEF RunFails
<1>2. CASE RunStarts
  BY <1>2 DEF RunStarts
<1>3. CASE RunReturns
  BY <1>3 DEF RunReturns
<1>4. CASE EngineEnds
  BY <1>4 DEF EngineEnds
<1>5. CASE LookupEnds
  BY <1>5 DEF LookupEnds
<1>6. CASE SendingEnds
  BY <1>6 DEF SendingEnds
<1>7. CASE ListenFails
  BY <1>7 DEF ListenFails
<1>8. CASE TestPosted
  <2>1. clock' \in [Timers -> Nat] /\ clock'["test"] = 0
        /\ \A t \in Timers : t # "test" => clock'[t] = clock[t]
    BY <1>8 DEF TestPosted
  <2>2. TestBound \in Nat
    BY DEF TestBound
  <2> QED
    BY <1>8, <2>1, <2>2 DEF TestPosted
<1>9. CASE TestEnds
  BY <1>9 DEF TestEnds
<1>10. CASE ShutdownBegins
  BY <1>10 DEF ShutdownBegins
<1>11. CASE ShutdownEnds
  BY <1>11 DEF ShutdownEnds, ShutdownMayEnd
<1>12. CASE Stop
  BY <1>12 DEF Stop
<1>13. CASE StopReturns
  BY <1>13 DEF StopReturns, StopMayReturn
<1>14. CASE UNCHANGED vars
  BY <1>14 DEF vars
<1> QED
  BY <1>1, <1>2, <1>3, <1>4, <1>5, <1>6, <1>7, <1>8, <1>9, <1>10, <1>11, <1>12, <1>13, <1>14
     DEF Next

(* Time passes only while nothing is due.                                  *)
LEMMA TickHolds == ASSUME ServiceAssumption, IInv, Tick PROVE IInv'
<1> USE DEF IInv, TypeOK, ServiceAssumption
<1>1. UNCHANGED <<file, announces, serves, process, cancelled, run, engine, announce,
                  gateway, test>> /\ Alive
  BY DEF Tick
<1>2. clock' \in [Timers -> Nat]
      /\ clock'["stop"] = (IF process = "stopping" THEN clock["stop"] + 1 ELSE clock["stop"])
      /\ clock'["shutdown"]
             = (IF gateway = "closing" THEN clock["shutdown"] + 1 ELSE clock["shutdown"])
      /\ clock'["lookup"] = (IF announce = "lookup" THEN clock["lookup"] + 1 ELSE clock["lookup"])
      /\ clock'["test"] = (IF test = "busy" THEN clock["test"] + 1 ELSE clock["test"])
  BY DEF Tick, Running
<1>3. /\ run # "loading" /\ ~(run = "waiting" /\ AllDone)
      /\ ~(engine = "on" /\ cancelled) /\ ~(announce = "sending" /\ cancelled)
      /\ ~(gateway = "serving" /\ cancelled)
      /\ announce = "lookup" => clock["lookup"] < LookupBound
      /\ gateway = "closing" => clock["shutdown"] < ShutdownBound
      /\ test = "busy" => clock["test"] < TestBound
      /\ process = "stopping" => clock["stop"] < StopBound
  <2>1. TestBound \in Nat
    BY DEF TestBound
  <2> QED
    BY <2>1 DEF Tick, Due, ShutdownMayEnd, StopMayReturn
<1>4. TypeOK'
  <2>1. TestBound \in Nat
    BY DEF TestBound
  <2> QED
    BY <1>1, <1>2, <1>3, <2>1
<1>5. RunInv' /\ CancelInv' /\ ExitInv' /\ TestInv'
  BY <1>1, <1>2 DEF RunInv, CancelInv, ExitInv, TestInv, AllDone, GatewayIsOff, Alive
<1>6. ClockInv'
  BY <1>1, <1>2, <1>3 DEF ClockInv, CancelInv, RunInv, AllDone, GatewayIsOff, Alive
<1> QED
  BY <1>4, <1>5, <1>6

(* The inductive invariant: the clocks, and what Run, the cancellation and *)
(* the exit of the process say of each other.                              *)
THEOREM ServiceInvariant == Spec => []IInv
<1>1. Init => IInv
  BY InitHolds, ServiceAssumption
<1>2. IInv /\ [Next]_vars => IInv'
  BY StepHolds, TickHolds, ServiceAssumption
<1> QED
  BY <1>1, <1>2, PTL DEF Spec

(* Types, and that no wait exceeds its bound.                              *)
THEOREM TypeCorrect == Spec => []TypeOK
<1>1. IInv => TypeOK
  BY DEF IInv
<1> QED
  BY <1>1, ServiceInvariant, PTL

(* Only an announcement's lookup can make Stop give up on Run.             *)
THEOREM LookupAlone == Spec => []OnlyTheLookupOutlastsStop
<1>1. ServiceAssumption /\ IInv => OnlyTheLookupOutlastsStop
  BY DEF ServiceAssumption, IInv, TypeOK, RunInv, CancelInv, ClockInv, ExitInv,
         AllDone, GatewayIsOff, OnlyTheLookupOutlastsStop
<1> QED
  BY <1>1, ServiceAssumption, ServiceInvariant, PTL

(* An exit before StopBound cuts off neither an event nor an announcement, *)
(* and a /test request only if Shutdown has given up on it or if there was *)
(* no Shutdown.                                                            *)
THEOREM EarlyExits == Spec => []EarlyExitIsClean
<1>1. ServiceAssumption /\ IInv => EarlyExitIsClean
  BY DEF ServiceAssumption, IInv, TypeOK, RunInv, ExitInv, TestInv, AllDone,
         GatewayIsOff, EarlyExitIsClean
<1> QED
  BY <1>1, ServiceAssumption, ServiceInvariant, PTL

(* The engine runs until Stop.                                             *)
THEOREM EngineStays == Spec => []WatchesUntilStopped
<1>1. IInv => WatchesUntilStopped
  BY DEF IInv, TypeOK, CancelInv, WatchesUntilStopped
<1> QED
  BY <1>1, ServiceInvariant, PTL

=============================================================================
