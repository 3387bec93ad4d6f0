--------------------------- MODULE EndToEndProofs ---------------------------
(***************************************************************************)
(* Theorems about EndToEnd, for every set of interfaces and notifiers and  *)
(* any number of retries, changes and events.  What EventPipelineProofs    *)
(* and DeliveryProofs have proved of the two components is taken over with *)
(* instances of those modules: their theorems of specifications where the  *)
(* composition implements the component's, their lemmas about single steps *)
(* where it takes those steps.                                             *)
(***************************************************************************)
EXTENDS EndToEnd, FiniteSetTheorems, SequenceTheorems, TLAPS

PP == INSTANCE EventPipelineProofs
DP == INSTANCE DeliveryProofs WITH
        changes <- Len(story) + Cardinality(Acceptable),
        content <- 0, swaps <- 0, MaxSwaps <- 0, Extras <- {}

(* The components' assumptions are this module's.                          *)
LEMMA Assumptions == PP!PipelineAssumption /\ DP!DeliveryAssumption
BY EndToEndAssumption DEF PP!PipelineAssumption, DP!DeliveryAssumption, P!Watchers, PP!Watchers

(* Every step is one of the pipeline, or none of its business.             *)
LEMMA StepOfPipeline ==
    ASSUME [Next]_vars
    PROVE  [P!Next]_P!vars
<1> USE DEF P!vars, P!network, P!watch, P!channel, P!engine
<1>1. CASE WatchStep
  BY <1>1 DEF WatchStep, P!Next
<1>2. CASE LoopStep
  BY <1>2 DEF LoopStep, P!Next, P!EngineStep
<1>3. CASE Accept
  BY <1>3 DEF Accept, P!Next, P!EngineStep
<1>4. CASE DispatchReturns
  BY <1>4 DEF DispatchReturns, P!Next, P!EngineStep
<1>5. ASSUME NEW n \in Notifiers, Deliver(n) PROVE UNCHANGED P!vars
  <2>1. UNCHANGED cancelled
    BY <1>5 DEF Deliver, D!JobStep, D!StartCall, D!CallEnds, D!Record, D!StopWaiting
  <2> QED
    BY <1>5, <2>1 DEF Deliver, pipeline
<1>6. CASE Cancel
  BY <1>6 DEF Cancel, P!Next
<1>7. CASE UNCHANGED vars
  BY <1>7 DEF vars, pipeline
<1> QED
  BY <1>1, <1>2, <1>3, <1>4, <1>5, <1>6, <1>7 DEF Next

(* Whatever the deliver goroutines do, the watchers, the channel and the   *)
(* loop do what EventPipeline says they may.                               *)
THEOREM EndToEndImplementsPipeline == Spec => P!Spec
<1>1. Init => P!Init
  BY DEF Init
<1>2. [Next]_vars => [P!Next]_P!vars
  BY StepOfPipeline
<1> QED
  BY <1>1, <1>2, PTL DEF Spec, P!Spec

(* P and PP are two instances of the same definitions.                     *)
LEMMA SamePipeline ==
    /\ P!Init => PP!Init
    /\ [P!Next]_P!vars => [PP!Next]_PP!vars
    /\ P!Accept => PP!Accept
    /\ P!Keys = PP!Keys /\ P!Lists = PP!Lists /\ P!Event = PP!Event
<1> USE DEF P!Watchers, PP!Watchers, P!Keys, PP!Keys, P!Lists, PP!Lists
<1>1. P!Init => PP!Init
  BY DEF P!Init, PP!Init
<1>2. [P!Next]_P!vars => [PP!Next]_PP!vars
  BY Zenon
  DEF P!vars, PP!vars, P!network, PP!network, P!watch, PP!watch, P!channel, PP!channel,
      P!engine, PP!engine, P!Spend, PP!Spend, P!NetworkChange, PP!NetworkChange,
      P!Snapshot, PP!Snapshot, P!TakeSnapshot, PP!TakeSnapshot, P!Goto, PP!Goto,
      P!LocalBaseline, PP!LocalBaseline, P!Diff, PP!Diff, P!LocalTick, PP!LocalTick,
      P!NextInDiff, PP!NextInDiff, P!EventOf, PP!EventOf, P!Put, PP!Put,
      P!LocalSend, PP!LocalSend, P!WatcherStop, PP!WatcherStop,
      P!PublicBaseline, PP!PublicBaseline, P!PublicTick, PP!PublicTick,
      P!PublicSend, PP!PublicSend, P!CloseEvents, PP!CloseEvents, P!Changed, PP!Changed,
      P!Drop, PP!Drop, P!Accept, PP!Accept, P!DispatchReturns, PP!DispatchReturns,
      P!RunReturns, PP!RunReturns, P!Cancel, PP!Cancel, P!LocalStep, PP!LocalStep,
      P!PublicStep, PP!PublicStep, P!EngineStep, PP!EngineStep, P!Next, PP!Next
<1>3. P!Accept => PP!Accept
  BY DEF P!Accept, PP!Accept, P!Changed, PP!Changed, P!network, PP!network, P!watch, PP!watch
<1>4. P!Event = PP!Event
  BY DEF P!Event, PP!Event
<1> QED
  BY <1>1, <1>2, <1>3, <1>4

(* So the invariants of the pipeline hold here.                            *)
LEMMA PipelineHolds == Spec => []PP!TypeOK /\ []PP!Chain
<1>1. Init => PP!Init
  BY SamePipeline DEF Init
<1>2. [Next]_vars => [PP!Next]_PP!vars
  BY StepOfPipeline, SamePipeline
<1>3. Spec => PP!Spec
  BY <1>1, <1>2, PTL DEF Spec, PP!Spec
<1>4. PP!Spec => []PP!TypeOK
  BY EndToEndAssumption, Assumptions, PP!TypeCorrect
<1>5. PP!Spec => []PP!Chain
  BY EndToEndAssumption, Assumptions, PP!ChainHolds
<1> QED
  BY <1>3, <1>4, <1>5, PTL

(* The same of Delivery, step by step.                                     *)
LEMMA SameDelivery ==
    ASSUME NEW v, NEW n
    PROVE  /\ D!JobStep(v, n) => DP!JobStep(v, n)
           /\ D!LoopTakes(v) => DP!LoopTakes(v)
           /\ D!DispatchReturns(v) => DP!DispatchReturns(v)
<1>1. D!JobStep(v, n) => DP!JobStep(v, n)
  BY Zenon DEF D!JobStep, DP!JobStep, D!StartCall, DP!StartCall, D!CallEnds, DP!CallEnds,
     D!Outcomes, DP!Outcomes, D!Record, DP!Record, D!NextAttempt, DP!NextAttempt,
     D!StopWaiting, DP!StopWaiting
<1>2. D!LoopTakes(v) => DP!LoopTakes(v)
  BY Zenon DEF D!LoopTakes, DP!LoopTakes, D!Begin, DP!Begin, D!Fresh, DP!Fresh, D!NoJob, DP!NoJob
<1>3. D!DispatchReturns(v) => DP!DispatchReturns(v)
  BY Zenon DEF D!DispatchReturns, DP!DispatchReturns
<1> QED
  BY <1>1, <1>2, <1>3

----------------------------------------------------------------------------
(* One dispatch at a time: what the loop and the goroutines know of each   *)
(* other.  Only the dispatch of the event taken last can be under way, and *)
(* only while the loop waits for it.                                       *)

Alive(v, n) == job[v][n].pc \notin {"none", "finished"}

Phase(v) == IF v > taken THEN "before"
            ELSE IF v = taken /\ epc = "dispatch" THEN "waiting" ELSE "after"

LoopInv ==
    /\ DP!JobsTyped
    /\ notifiers \subseteq Notifiers
    /\ taken \in 0 .. MaxEvents
    /\ epc = "dispatch" => taken > 0
    /\ \A v \in D!Events : phase[v] = Phase(v)
    /\ \A v \in D!Events, n \in Notifiers :
            Alive(v, n) => v = taken /\ epc = "dispatch" /\ n \in notifiers

(* Without announcements and tests the dispatches are 1 .. MaxEvents.      *)
LEMMA Dispatching ==
    /\ D!Events = 1 .. MaxEvents /\ DP!Dispatches = 1 .. MaxEvents
    /\ DP!Events = 1 .. MaxEvents
    /\ Test \notin D!Events /\ MaxEvents \in Nat
BY EndToEndAssumption DEF D!Events, DP!Events, DP!Dispatches

(* The steps that leave the goroutines alone.                              *)
LEMMA LoopFrame ==
    ASSUME LoopInv, UNCHANGED delivery, cancelled' \in BOOLEAN,
           epc' = "dispatch" <=> epc = "dispatch"
    PROVE  LoopInv'
BY Dispatching DEF LoopInv, delivery, DP!JobsTyped, DP!Names, Phase, Alive

(* What accepting an event does.                                           *)
LEMMA AcceptFacts ==
    ASSUME LoopInv, Accept
    PROVE  /\ taken + 1 \in D!Events /\ taken' = taken + 1
           /\ epc = "recv" /\ epc' = "dispatch"
           /\ events # <<>> /\ story' = Append(story, Head(events))
           /\ DP!Begin(taken + 1)
           /\ UNCHANGED <<notifiers, status, inbox, cancelled>>
<1>1. D!LoopTakes(taken + 1) /\ P!Accept /\ taken < MaxEvents
  BY DEF Accept
<1>2. DP!LoopTakes(taken + 1)
  BY <1>1, SameDelivery
<1>3. taken + 1 \in D!Events
  BY <1>1, Dispatching DEF LoopInv
<1> QED
  BY <1>1, <1>2, <1>3 DEF Accept, P!Accept, DP!LoopTakes

(* What beginning a dispatch does to the goroutines.                       *)
LEMMA BeginFacts ==
    ASSUME LoopInv, NEW v \in D!Events, DP!Begin(v)
    PROVE  /\ phase' \in [D!Events -> {"before", "waiting", "after"}]
           /\ job' \in [D!Events -> [Notifiers -> DP!Jobs]]
           /\ phase' = [phase EXCEPT ![v] = "waiting"]
           /\ \A n \in Notifiers :
                 /\ job'[v][n] = IF n \in notifiers THEN DP!Fresh ELSE DP!NoJob
                 /\ \A u \in D!Events \ {v} : job'[u][n] = job[u][n]
<1>1. /\ phase' \in [DP!Dispatches -> {"before", "waiting", "after"}]
      /\ job' \in [DP!Dispatches -> [Notifiers -> DP!Jobs]]
  BY EndToEndAssumption, Assumptions, Dispatching, DP!BeginType DEF LoopInv
<1>2. /\ phase' = [phase EXCEPT ![v] = "waiting"]
      /\ job' = [job EXCEPT ![v] = [n \in Notifiers |->
                    IF n \in notifiers THEN DP!Fresh ELSE DP!NoJob]]
  BY DEF DP!Begin
<1>3. job \in [D!Events -> [Notifiers -> DP!Jobs]]
  BY Dispatching DEF LoopInv, DP!JobsTyped
<1> QED
  BY <1>1, <1>2, <1>3, Dispatching

(* A goroutine's step, as DeliveryProofs sees it.                          *)
LEMMA DeliverFacts ==
    ASSUME LoopInv, NEW n \in Notifiers, Deliver(n)
    PROVE  /\ taken \in D!Events /\ epc = "dispatch" /\ n \in notifiers /\ Alive(taken, n)
           /\ DP!JobStep(taken, n)
           /\ DP!JobsTyped'
           /\ \A u \in D!Events, m \in Notifiers :
                  u # taken \/ m # n => job'[u][m] = job[u][m]
           /\ \/ DP!Started(taken, n) \/ DP!Ended(taken, n)
              \/ DP!Recorded(taken, n) \/ DP!Stopped(taken, n)
           /\ UNCHANGED <<pipeline, story, notifiers, taken, phase, cancelled>>
<1>1. PICK v \in D!Events : D!JobStep(v, n)
  BY DEF Deliver
<1>2. DP!JobStep(v, n)
  BY <1>1, SameDelivery
<1>3. Alive(v, n)
  BY <1>2 DEF DP!JobStep, DP!StartCall, DP!CallEnds, DP!Record, DP!StopWaiting, Alive
<1>4. v = taken /\ epc = "dispatch" /\ n \in notifiers
  BY <1>1, <1>3 DEF LoopInv
<1>5. /\ job' \in [DP!Dispatches -> [Notifiers -> DP!Jobs]]
      /\ \A e \in DP!Dispatches, m \in Notifiers :
            e # v \/ m # n => job'[e][m] = job[e][m]
      /\ DP!Started(v, n) \/ DP!Ended(v, n) \/ DP!Recorded(v, n) \/ DP!Stopped(v, n)
  BY <1>1, <1>2, EndToEndAssumption, Assumptions, Dispatching, DP!JobSteps DEF LoopInv
<1>6. /\ UNCHANGED <<notifiers, taken, phase, cancelled>>
      /\ status' \in [DP!Names -> {"none", "ok", "err"}]
      /\ inbox' \in [Notifiers -> Seq(DP!Dispatches)]
  BY <1>1, <1>2, EndToEndAssumption, Assumptions, Dispatching, DP!JobFrame DEF LoopInv
<1>7. DP!JobsTyped'
  BY <1>5, <1>6 DEF LoopInv, DP!JobsTyped, DP!Names
<1> QED
  BY <1>1, <1>2, <1>3, <1>4, <1>5, <1>6, <1>7, Dispatching DEF Deliver

(* LoopInv holds at the start ...                                          *)
LEMMA InitLoop == ASSUME Init PROVE LoopInv
<1>1. DP!JobsTyped
  <2>1. D!NoJob \in DP!Jobs
    BY EndToEndAssumption DEF D!NoJob, DP!Jobs
  <2>2. /\ phase \in [D!Events -> {"before", "waiting", "after"}]
        /\ job \in [D!Events -> [Notifiers -> DP!Jobs]]
    BY <2>1, Dispatching DEF Init, D!Init, D!Dispatches
  <2>3. /\ status \in [DP!Names -> {"none", "ok", "err"}]
        /\ inbox \in [Notifiers -> Seq(D!Events)]
    BY Dispatching DEF Init, D!Init, DP!Names
  <2>4. cancelled \in BOOLEAN
    BY Zenon DEF Init, P!Init
  <2> QED
    BY <2>2, <2>3, <2>4, Dispatching DEF DP!JobsTyped
<1>2. epc = "recv" /\ taken = 0 /\ notifiers \subseteq Notifiers
  BY DEF Init, P!Init, D!Init
<1>3. \A v \in D!Events : phase[v] = "before" /\ \A n \in Notifiers : job[v][n].pc = "none"
  BY Dispatching DEF Init, D!Init, D!Dispatches, D!NoJob
<1> QED
  BY <1>1, <1>2, <1>3, Dispatching DEF LoopInv, Phase, Alive

(* ... every step preserves it ...                                         *)
LEMMA StepLoop ==
    ASSUME LoopInv, [Next]_vars PROVE LoopInv'
<1>0. cancelled \in BOOLEAN
  BY DEF LoopInv, DP!JobsTyped
<1>1. CASE WatchStep
  <2>1. UNCHANGED <<delivery, cancelled, epc>>
    BY <1>1 DEF WatchStep, P!NetworkChange, P!LocalStep, P!LocalBaseline, P!LocalTick,
       P!LocalSend, P!PublicStep, P!PublicBaseline, P!PublicTick, P!PublicSend,
       P!WatcherStop, P!engine
  <2> QED
    BY <1>0, <2>1, LoopFrame
<1>2. CASE LoopStep
  <2>1. UNCHANGED <<delivery, cancelled>> /\ (epc' = "dispatch" <=> epc = "dispatch")
    BY <1>2 DEF LoopStep, P!CloseEvents, P!Drop, P!RunReturns, P!engine
  <2> QED
    BY <1>0, <2>1, LoopFrame
<1>3. CASE Accept
  <2>1. /\ taken + 1 \in D!Events /\ taken' = taken + 1
        /\ epc = "recv" /\ epc' = "dispatch"
        /\ UNCHANGED <<notifiers, status, inbox, cancelled>>
        /\ DP!Begin(taken + 1)
    BY <1>3, AcceptFacts
  <2>2. /\ phase' \in [D!Events -> {"before", "waiting", "after"}]
        /\ job' \in [D!Events -> [Notifiers -> DP!Jobs]]
        /\ phase' = [phase EXCEPT ![taken + 1] = "waiting"]
        /\ \A n \in Notifiers :
              /\ job'[taken + 1][n] = IF n \in notifiers THEN DP!Fresh ELSE DP!NoJob
              /\ \A u \in D!Events \ {taken + 1} : job'[u][n] = job[u][n]
    BY <2>1, BeginFacts
  <2>3. DP!JobsTyped'
    BY <2>1, <2>2, Dispatching DEF LoopInv, DP!JobsTyped, DP!Names
  <2>4. taken' \in 0 .. MaxEvents /\ taken' > 0
    BY <2>1, Dispatching
  <2>5. ASSUME NEW v \in D!Events PROVE phase'[v] = Phase(v)'
    BY <2>1, <2>2, Dispatching DEF LoopInv, Phase, DP!JobsTyped
  <2>6. ASSUME NEW v \in D!Events, NEW n \in Notifiers, Alive(v, n)'
        PROVE  v = taken' /\ n \in notifiers
    <3>1. CASE v = taken + 1
      BY <2>1, <2>2, <2>6, <3>1 DEF Alive, DP!NoJob
    <3>2. CASE v # taken + 1
      <4>1. Alive(v, n)
        BY <2>2, <2>6, <3>2 DEF Alive
      <4> QED
        BY <2>1, <4>1 DEF LoopInv
    <3> QED
      BY <3>1, <3>2
  <2> QED
    BY <2>1, <2>3, <2>4, <2>5, <2>6 DEF LoopInv
<1>4. CASE DispatchReturns
  <2>1. /\ epc = "dispatch" /\ epc' = "recv"
        /\ phase' = [phase EXCEPT ![taken] = "after"]
        /\ \A n \in Notifiers : job[taken][n].pc \in {"none", "finished"}
        /\ UNCHANGED <<notifiers, taken, job, status, inbox, cancelled>>
    BY <1>4 DEF DispatchReturns, P!DispatchReturns, D!DispatchReturns
  <2>2. taken \in D!Events
    BY <2>1, Dispatching DEF LoopInv
  <2>3. DP!JobsTyped'
    BY <2>1, <2>2, Dispatching DEF LoopInv, DP!JobsTyped, DP!Names
  <2>4. ASSUME NEW v \in D!Events PROVE phase'[v] = Phase(v)'
    BY <2>1, <2>2, Dispatching DEF LoopInv, Phase, DP!JobsTyped
  <2>5. ASSUME NEW v \in D!Events, NEW n \in Notifiers PROVE ~Alive(v, n)'
    BY <2>1, <2>2 DEF LoopInv, Alive
  <2> QED
    BY <2>1, <2>3, <2>4, <2>5 DEF LoopInv
<1>5. ASSUME NEW n \in Notifiers, Deliver(n) PROVE LoopInv'
  <2>1. /\ taken \in D!Events /\ epc = "dispatch" /\ n \in notifiers
        /\ DP!JobsTyped'
        /\ \A u \in D!Events, m \in Notifiers :
               u # taken \/ m # n => job'[u][m] = job[u][m]
        /\ UNCHANGED <<pipeline, notifiers, taken, phase>>
    BY <1>5, DeliverFacts
  <2>2. UNCHANGED epc
    BY <2>1 DEF pipeline
  <2>3. ASSUME NEW v \in D!Events, NEW m \in Notifiers, Alive(v, m)'
        PROVE  v = taken /\ m \in notifiers
    BY <2>1, <2>3 DEF LoopInv, Alive
  <2> QED
    BY <2>1, <2>2, <2>3 DEF LoopInv, Phase
<1>6. CASE Cancel
  <2>1. UNCHANGED <<delivery, epc>> /\ cancelled' = TRUE
    BY <1>6 DEF Cancel, P!Cancel, D!Cancel, P!engine, delivery
  <2> QED
    BY <2>1, LoopFrame, Zenon
<1>7. CASE UNCHANGED vars
  <2>1. UNCHANGED <<delivery, cancelled, epc>>
    BY <1>7 DEF vars, pipeline
  <2> QED
    BY <1>0, <2>1, LoopFrame
<1> QED
  BY <1>1, <1>2, <1>3, <1>4, <1>5, <1>6, <1>7 DEF Next

(* ... and so it always holds.                                             *)
LEMMA LoopHolds == Spec => []LoopInv
<1>1. Init => LoopInv
  BY InitLoop
<1>2. LoopInv /\ [Next]_vars => LoopInv'
  BY StepLoop
<1> QED
  BY <1>1, <1>2, PTL DEF Spec

(* When Run has returned nothing is sent any more, for any number of       *)
(* notifiers, retries and events.                                          *)
THEOREM QuietAfterReturn == Spec => NothingSentAfterReturn
<1>1. ASSUME LoopInv, [Next]_vars, epc = "returned" PROVE inbox' = inbox
  <2>1. ~(\E n \in Notifiers : Deliver(n))
    BY <1>1, DeliverFacts
  <2>2. CASE WatchStep \/ LoopStep \/ Accept \/ DispatchReturns \/ Cancel \/ UNCHANGED vars
    BY <2>2 DEF WatchStep, LoopStep, Accept, D!LoopTakes, DispatchReturns, D!DispatchReturns,
       Cancel, D!Cancel, delivery, vars
  <2> QED
    BY <1>1, <2>1, <2>2 DEF Next
<1> QED
  BY <1>1, LoopHolds, PTL DEF Spec, NothingSentAfterReturn

----------------------------------------------------------------------------
(* A healthy notifier's inbox holds the events 1, 2, ... in turn.  As long *)
(* as the context is not done it is complete but for the event under way;  *)
(* later it may stop growing, but skips nothing, because every call begun  *)
(* from then on fails at once.                                             *)

(* The call under way that may still put something into the inbox.         *)
Flying(n) ==
    taken > 0 /\ job[taken][n].pc = "calling" /\ ~job[taken][n].dead

InTime(n) ==
    IF taken = 0 THEN Len(inbox[n]) = 0
    ELSE \/ /\ job[taken][n].pc \in {"recording", "finished"} /\ job[taken][n].ok
            /\ Len(inbox[n]) = taken
         \/ /\ job[taken][n].pc = "ready" \/ (job[taken][n].pc = "calling" /\ ~job[taken][n].dead)
            /\ Len(inbox[n]) = taken - 1

Follows(n) ==
    /\ Len(inbox[n]) <= taken
    /\ \A i \in 1 .. Len(inbox[n]) : inbox[n][i] = i
    /\ n \in notifiers /\ ~cancelled => InTime(n)
    /\ Flying(n) => Len(inbox[n]) = taken - 1

HealthyInv == \A n \in Healthy : Follows(n)

(* What a healthy notifier's goroutine does to its inbox.                  *)
LEMMA DeliverFollows ==
    ASSUME LoopInv, NEW n \in Healthy, Follows(n), Deliver(n)
    PROVE  /\ Follows(n)'
           /\ \/ inbox'[n] = inbox[n]
              \/ Len(inbox[n]) = taken - 1 /\ inbox'[n] = Append(inbox[n], taken)
<1>0. n \in Notifiers
  BY EndToEndAssumption
<1>1. /\ taken \in D!Events /\ n \in notifiers /\ taken \in Nat /\ taken > 0
      /\ DP!JobStep(taken, n)
      /\ DP!JobsTyped'
      /\ \/ DP!Started(taken, n) \/ DP!Ended(taken, n)
         \/ DP!Recorded(taken, n) \/ DP!Stopped(taken, n)
      /\ UNCHANGED <<notifiers, taken, cancelled>>
  BY <1>0, DeliverFacts, Dispatching
<1>2. /\ inbox \in [Notifiers -> Seq(D!Events)] /\ inbox[n] \in Seq(D!Events)
      /\ Len(inbox[n]) \in Nat
      /\ taken # Test /\ cancelled \in BOOLEAN /\ job[taken][n] \in DP!Jobs
  BY <1>0, <1>1, Dispatching DEF LoopInv, DP!JobsTyped
<1>3. CASE DP!Started(taken, n)
  <2>1. /\ inbox' = inbox
        /\ job[taken][n].pc \in {"ready", "backoff"} /\ job'[taken][n].pc = "calling"
    BY <1>3 DEF DP!Started
  <2>2. job'[taken][n].dead = cancelled
    BY <1>2, <1>3, Zenon DEF DP!Started
  <2>3. ~cancelled => InTime(n)' /\ Len(inbox[n]) = taken - 1
    BY <1>1, <2>1, <2>2 DEF Follows, InTime
  <2>4. Flying(n)' => ~cancelled
    BY <1>1, <2>2 DEF Flying
  <2> QED
    BY <1>1, <2>1, <2>3, <2>4 DEF Follows
<1>4. CASE DP!Ended(taken, n)
  <2>1. /\ job[taken][n].pc = "calling" /\ job'[taken][n].pc = "recording"
        /\ inbox' \in {inbox, [inbox EXCEPT ![n] = Append(@, taken)]}
    BY <1>2, <1>4 DEF DP!Ended
  <2>2. /\ inbox' # inbox => ~job[taken][n].dead
        /\ ~job[taken][n].dead /\ ~cancelled =>
              job'[taken][n].ok /\ inbox' = [inbox EXCEPT ![n] = Append(@, taken)]
    BY <1>0, <1>1, <2>1, EndToEndAssumption, Assumptions, Dispatching, DP!HealthyCalls DEF LoopInv
  <2>3. CASE inbox' = inbox
    <3>1. ~cancelled => FALSE
      <4> SUFFICES ASSUME ~cancelled PROVE FALSE
        OBVIOUS
      <4>1. ~job[taken][n].dead
        BY <1>1, <2>1 DEF Follows, InTime
      <4>2. inbox[n] = Append(inbox[n], taken)
        BY <1>0, <1>2, <2>2, <2>3, <4>1
      <4>3. Len(Append(inbox[n], taken)) = Len(inbox[n]) + 1
        BY <1>1, <1>2
      <4> QED
        BY <1>2, <4>2, <4>3
    <3>2. ~Flying(n)'
      BY <1>1, <2>1 DEF Flying
    <3> QED
      BY <1>1, <2>3, <3>1, <3>2 DEF Follows
  <2>4. CASE inbox' # inbox
    <3>1. inbox'[n] = Append(inbox[n], taken)
      BY <1>0, <1>2, <2>1, <2>4
    <3>2. /\ Len(inbox'[n]) = Len(inbox[n]) + 1
          /\ \A i \in 1 .. Len(inbox[n]) : inbox'[n][i] = inbox[n][i]
          /\ inbox'[n][Len(inbox[n]) + 1] = taken
      BY <1>1, <1>2, <3>1, AppendProperties
    <3>3. Len(inbox[n]) = taken - 1
      BY <1>1, <2>1, <2>2, <2>4 DEF Follows, Flying
    <3>4. ASSUME NEW i \in 1 .. Len(inbox'[n]) PROVE inbox'[n][i] = i
      <4>1. \A j \in 1 .. Len(inbox[n]) : inbox[n][j] = j
        BY DEF Follows
      <4>2. i \in 1 .. Len(inbox[n]) \/ (i = Len(inbox[n]) + 1 /\ i = taken)
        BY <1>1, <1>2, <3>2, <3>3
      <4> QED
        BY <3>2, <4>1, <4>2
    <3>5. ~Flying(n)'
      BY <1>1, <2>1 DEF Flying
    <3>6. ~cancelled => InTime(n)'
      BY <1>1, <2>1, <2>2, <2>4, <3>2, <3>3 DEF InTime
    <3> QED
      BY <1>1, <3>1, <3>2, <3>3, <3>4, <3>5, <3>6 DEF Follows
  <2> QED
    BY <2>3, <2>4
<1>5. CASE DP!Recorded(taken, n)
  <2>1. /\ job[taken][n].pc = "recording" /\ inbox' = inbox
        /\ job'[taken][n] = DP!NextAttempt(job[taken][n])
    BY <1>5 DEF DP!Recorded
  <2>2. /\ DP!NextAttempt(job[taken][n]).ok = job[taken][n].ok
        /\ \/ DP!NextAttempt(job[taken][n]).pc = "finished"
           \/ ~job[taken][n].ok /\ DP!NextAttempt(job[taken][n]).pc = "backoff"
    BY <1>2, EndToEndAssumption, Assumptions, DP!NextAttemptFacts
  <2>3. ~Flying(n)'
    BY <1>1, <2>1, <2>2 DEF Flying
  <2>4. ~cancelled => InTime(n)'
    BY <1>1, <2>1, <2>2 DEF Follows, InTime
  <2> QED
    BY <1>1, <2>1, <2>3, <2>4 DEF Follows
<1>6. CASE DP!Stopped(taken, n)
  <2>1. cancelled /\ job'[taken][n].pc = "finished" /\ inbox' = inbox
    BY <1>6 DEF DP!Stopped
  <2>2. ~Flying(n)'
    BY <1>1, <2>1 DEF Flying
  <2> QED
    BY <1>1, <2>1, <2>2 DEF Follows
<1> QED
  BY <1>1, <1>3, <1>4, <1>5, <1>6

(* Every other step leaves it alone.                                       *)
LEMMA OthersFollow ==
    ASSUME LoopInv, NEW n \in Healthy, Follows(n), [Next]_vars, ~Deliver(n)
    PROVE  Follows(n)' /\ inbox'[n] = inbox[n]
<1>0. n \in Notifiers
  BY EndToEndAssumption
<1>1. inbox[n] \in Seq(D!Events) /\ Len(inbox[n]) \in Nat /\ taken \in Nat
  BY <1>0, Dispatching DEF LoopInv, DP!JobsTyped
<1>2. CASE WatchStep \/ LoopStep \/ UNCHANGED vars
  <2>1. UNCHANGED delivery
    BY <1>2 DEF WatchStep, LoopStep, vars
  <2>2. UNCHANGED cancelled
    BY <1>2 DEF WatchStep, P!NetworkChange, P!LocalStep, P!LocalBaseline, P!LocalTick,
       P!LocalSend, P!PublicStep, P!PublicBaseline, P!PublicTick, P!PublicSend,
       P!WatcherStop, LoopStep, P!CloseEvents, P!Drop, P!RunReturns, vars
  <2> QED
    BY <2>1, <2>2 DEF delivery, Follows, InTime, Flying
<1>3. CASE Accept
  <2>1. /\ taken + 1 \in D!Events /\ taken' = taken + 1 /\ epc = "recv"
        /\ DP!Begin(taken + 1)
        /\ UNCHANGED <<notifiers, status, inbox, cancelled>>
    BY <1>3, AcceptFacts
  <2>2. job'[taken + 1][n] = IF n \in notifiers THEN DP!Fresh ELSE DP!NoJob
    BY <1>0, <2>1, BeginFacts
  <2>3. ~Flying(n)'
    BY <2>1, <2>2 DEF Flying, DP!Fresh, DP!NoJob
  <2>4. ASSUME n \in notifiers, ~cancelled PROVE InTime(n)'
    <3>1. taken > 0 => ~Alive(taken, n)
      BY <1>0, <2>1, Dispatching DEF LoopInv
    <3>2. InTime(n)
      BY <2>4 DEF Follows
    <3>3. Len(inbox[n]) = taken
      BY <1>1, <3>1, <3>2 DEF InTime, Alive
    <3> QED
      BY <1>1, <2>1, <2>2, <2>4, <3>3 DEF InTime, DP!Fresh
  <2> QED
    BY <1>1, <2>1, <2>3, <2>4 DEF Follows
<1>4. CASE DispatchReturns
  <2>1. UNCHANGED <<notifiers, taken, job, inbox, cancelled>>
    BY <1>4 DEF DispatchReturns, D!DispatchReturns
  <2> QED
    BY <2>1 DEF Follows, InTime, Flying
<1>5. ASSUME NEW m \in Notifiers, Deliver(m) PROVE Follows(n)' /\ inbox'[n] = inbox[n]
  <2>1. /\ taken \in D!Events /\ m # n
        /\ job'[taken][n] = job[taken][n]
        /\ DP!JobStep(taken, m)
        /\ UNCHANGED <<notifiers, taken, cancelled>>
    BY <1>0, <1>5, DeliverFacts
  <2>2. \/ inbox' = inbox
        \/ inbox' = [inbox EXCEPT ![m] = Append(@, taken)]
    BY <2>1, EndToEndAssumption, Assumptions, Dispatching, DP!JobFrame DEF LoopInv
  <2>3. inbox'[n] = inbox[n]
    BY <1>0, <2>1, <2>2 DEF LoopInv, DP!JobsTyped
  <2> QED
    BY <2>1, <2>3 DEF Follows, InTime, Flying
<1>6. CASE Cancel
  <2>1. UNCHANGED <<notifiers, taken, job, inbox>> /\ cancelled'
    BY <1>6, Zenon DEF Cancel, D!Cancel, P!Cancel
  <2> QED
    BY <2>1 DEF Follows, Flying
<1> QED
  BY <1>2, <1>3, <1>4, <1>5, <1>6 DEF Next

(* So every healthy notifier follows the events all the time.              *)
LEMMA HealthyFollow == Spec => []HealthyInv
<1>1. Init => HealthyInv
  <2> SUFFICES ASSUME Init, NEW n \in Healthy PROVE Follows(n)
    BY DEF HealthyInv
  <2>1. n \in Notifiers /\ inbox[n] = <<>> /\ taken = 0
    BY EndToEndAssumption DEF Init, D!Init
  <2> QED
    BY <2>1 DEF Follows, InTime, Flying
<1>2. LoopInv /\ HealthyInv /\ [Next]_vars => HealthyInv'
  <2> SUFFICES ASSUME LoopInv, HealthyInv, [Next]_vars, NEW n \in Healthy PROVE Follows(n)'
    BY DEF HealthyInv
  <2> QED
    BY DeliverFollows, OthersFollow DEF HealthyInv
<1> QED
  BY <1>1, <1>2, LoopHolds, PTL DEF Spec

----------------------------------------------------------------------------
(* The events accepted, in their order, are an unbroken story about every  *)
(* key, and /status is where it has got to.                                *)

(* u is the last event about k among the first m.                          *)
Latest(u, m, k) ==
    /\ u \in 1 .. m /\ story[u].key = k
    /\ \A w \in 1 .. m : story[w].key = k => w <= u

StoryInv ==
    /\ story \in Seq(PP!Event) /\ Len(story) = taken
    /\ PP!Linked(story) /\ PP!EndsAt(story, state)
    /\ \A v \in 1 .. taken : story[v].key \in changedKeys
    /\ \A k \in changedKeys : PP!Has(story, k)
    /\ \A v \in 1 .. taken : PP!FirstOf(story, v) => story[v].new # NoAddrs
    /\ \A m \in 0 .. taken : \A k \in PP!Keys :
            (\E w \in 1 .. m : story[w].key = k) => \E u \in 1 .. m : Latest(u, m, k)

(* Accepting an event goes on with the story.                              *)
LEMMA AcceptStory ==
    ASSUME PP!TypeOK, PP!Chain, LoopInv, StoryInv, Accept PROVE StoryInv'
<1> DEFINE e == Head(events)
<1>1. /\ taken \in Nat /\ taken' = taken + 1 /\ story' = Append(story, e) /\ P!Accept
  BY AcceptFacts, Dispatching DEF LoopInv, Accept
<1>2. /\ e \in PP!Event /\ e.old # e.new
      /\ IF e.key \in changedKeys THEN e.old = state[e.key] ELSE e.new # NoAddrs
  BY <1>1, SamePipeline, EndToEndAssumption, Assumptions, PP!AcceptTells
<1>3. state' = [state EXCEPT ![e.key] = e.new] /\ changedKeys' = changedKeys \cup {e.key}
  BY <1>1 DEF P!Accept
<1>4. e.key \in PP!Keys /\ DOMAIN state = PP!Keys
  BY <1>2 DEF PP!Event, PP!TypeOK
<1> HIDE DEF e
<1>5. /\ story' \in Seq(PP!Event) /\ Len(story') = taken + 1
      /\ \A v \in 1 .. taken : story'[v] = story[v]
      /\ story'[taken + 1] = e
  BY <1>1, <1>2, AppendProperties DEF StoryInv
<1>6. PP!Linked(story') /\ PP!EndsAt(story', state')
  <2> DEFINE sent == [k \in PP!Keys |-> IF k = e.key THEN e.old ELSE state[k]]
  <2>0. story \in Seq(PP!Event) /\ \A v \in PP!Slots(story) : story[v].key \in PP!Keys
    <3>1. story \in Seq(PP!Event)
      BY DEF StoryInv
    <3>2. \A v \in PP!Slots(story) : story[v] \in PP!Event
      BY <3>1, LenProperties DEF PP!Slots
    <3> QED
      BY <3>1, <3>2 DEF PP!Event
  <2>1. PP!EndsAt(story, sent)
    <3>1. SUFFICES ASSUME NEW v \in PP!Slots(story), PP!LastOf(story, v)
                   PROVE  story[v].new = sent[story[v].key]
      BY DEF PP!EndsAt
    <3>2. story[v].new = state[story[v].key] /\ story[v].key \in changedKeys
      BY <3>1 DEF StoryInv, PP!EndsAt, PP!Slots
    <3> QED
      BY <1>2, <2>0, <3>2
  <2>2. PP!StartsAt(story, state, {}, sent)
    BY DEF PP!StartsAt
  <2>3. e.old = sent[e.key] /\ state'[e.key] = e.new
    BY <1>3, <1>4
  <2>4. \A k \in PP!Keys \ {e.key} : state'[k] = sent[k]
    BY <1>3, <1>4
  <2> HIDE DEF sent
  <2>5. PP!Linked(story) /\ story \in Seq(PP!Event) /\ e \in PP!Event /\ e.old # e.new
    BY <1>2, <2>0 DEF StoryInv
  <2> DEFINE nobody == {}
             sent2 == state'
  <2>6. /\ nobody \subseteq PP!Keys /\ PP!StartsAt(story, state, nobody, sent)
        /\ e.old = sent[e.key] /\ sent2[e.key] = e.new
        /\ \A k \in PP!Keys \ {e.key} : sent2[k] = sent[k]
    BY <2>2, <2>3, <2>4
  <2> HIDE DEF nobody, sent2
  <2>7. PP!Linked(Append(story, e)) /\ PP!EndsAt(Append(story, e), sent2)
    BY <2>1, <2>5, <2>6, EndToEndAssumption, Assumptions, PP!AppendChain
  <2> QED
    BY <1>1, <2>7 DEF sent2
<1>7. /\ \A v \in 1 .. taken' : story'[v].key \in changedKeys'
      /\ \A k \in changedKeys' : PP!Has(story', k)
  <2>1. \A v \in 1 .. taken : story[v].key \in changedKeys
    BY DEF StoryInv
  <2>2. ASSUME NEW k \in changedKeys PROVE PP!Has(story', k)
    <3>1. PICK v \in 1 .. taken : story[v].key = k
      BY <1>1 DEF StoryInv, PP!Has, PP!Slots
    <3> QED
      BY <1>1, <1>5, <3>1 DEF PP!Has, PP!Slots
  <2>3. PP!Has(story', e.key)
    BY <1>1, <1>5 DEF PP!Has, PP!Slots
  <2> QED
    BY <1>1, <1>3, <1>5, <2>1, <2>2, <2>3
<1>8. ASSUME NEW v \in 1 .. taken', PP!FirstOf(story', v) PROVE story'[v].new # NoAddrs
  <2>1. CASE v = taken + 1
    <3>1. ~PP!Has(story, e.key)
      BY <1>1, <1>5, <1>8, <2>1 DEF PP!Has, PP!Slots, PP!FirstOf, StoryInv
    <3> QED
      BY <1>2, <1>5, <2>1, <3>1 DEF StoryInv
  <2>2. CASE v # taken + 1
    <3>1. v \in 1 .. taken
      BY <1>1, <2>2
    <3>2. PP!FirstOf(story, v)
      BY <1>1, <1>5, <1>8, <3>1 DEF PP!Slots, PP!FirstOf, StoryInv
    <3> QED
      BY <1>5, <3>1, <3>2 DEF StoryInv
  <2> QED
    BY <2>1, <2>2
<1>9. ASSUME NEW m \in 0 .. taken', NEW k \in PP!Keys, \E w \in 1 .. m : story'[w].key = k
      PROVE  \E u \in 1 .. m : Latest(u, m, k)'
  <2>1. CASE m <= taken
    <3>1. \A w \in 1 .. m : story'[w] = story[w]
      BY <1>1, <1>5, <2>1
    <3>2. PICK u \in 1 .. m : Latest(u, m, k)
      BY <1>1, <1>9, <2>1, <3>1 DEF StoryInv
    <3> QED
      BY <3>1, <3>2 DEF Latest
  <2>2. CASE m = taken + 1 /\ k = e.key
    BY <1>1, <1>5, <2>2 DEF Latest
  <2>3. CASE m = taken + 1 /\ k # e.key
    <3>1. \E w \in 1 .. taken : story[w].key = k
      BY <1>1, <1>5, <1>9, <2>3
    <3>2. PICK u \in 1 .. taken : Latest(u, taken, k)
      BY <1>1, <3>1 DEF StoryInv
    <3> QED
      BY <1>1, <1>5, <2>3, <3>2 DEF Latest
  <2> QED
    BY <1>1, <2>1, <2>2, <2>3
<1> QED
  BY <1>1, <1>5, <1>6, <1>7, <1>8, <1>9 DEF StoryInv

(* The story is unbroken all the time.                                     *)
LEMMA StoryHolds == Spec => []StoryInv
<1>1. Init => StoryInv
  <2> SUFFICES ASSUME Init PROVE StoryInv
    OBVIOUS
  <2>1. story = <<>> /\ taken = 0 /\ changedKeys = {}
    BY DEF Init, P!Init, D!Init
  <2> QED
    BY <2>1 DEF StoryInv, PP!Linked, PP!EndsAt, PP!Slots
<1>2. PP!TypeOK /\ PP!Chain /\ LoopInv /\ StoryInv /\ [Next]_vars => StoryInv'
  <2> SUFFICES ASSUME PP!TypeOK, PP!Chain, LoopInv, StoryInv, [Next]_vars PROVE StoryInv'
    OBVIOUS
  <2>1. CASE Accept
    BY <2>1, AcceptStory
  <2>2. CASE UNCHANGED <<story, taken, state, changedKeys>>
    BY <2>2 DEF StoryInv, Latest
  <2>3. ASSUME NEW n \in Notifiers, Deliver(n) PROVE UNCHANGED <<story, taken, state, changedKeys>>
    BY <2>3, DeliverFacts DEF pipeline
  <2>4. CASE WatchStep \/ LoopStep \/ DispatchReturns \/ Cancel \/ UNCHANGED vars
    BY <2>2, <2>4 DEF WatchStep, P!NetworkChange, P!LocalStep, P!LocalBaseline, P!LocalTick,
       P!LocalSend, P!PublicStep, P!PublicBaseline, P!PublicTick, P!PublicSend,
       P!WatcherStop, P!engine, LoopStep, P!CloseEvents, P!Drop, P!RunReturns,
       DispatchReturns, P!DispatchReturns, D!DispatchReturns, Cancel, P!Cancel, D!Cancel,
       delivery, pipeline, vars
  <2> QED
    BY <2>1, <2>2, <2>3, <2>4 DEF Next
<1> QED
  BY <1>1, <1>2, PipelineHolds, LoopHolds, PTL DEF Spec

----------------------------------------------------------------------------
(* What somebody has read who has the first m events of a story.           *)

ReadOf(box, s) == [i \in DOMAIN box |-> s[box[i]]]

LastOf(box, s, k) ==
    LET about == {i \in DOMAIN box : ReadOf(box, s)[i].key = k}
    IN IF about = {} THEN NoAddrs
       ELSE ReadOf(box, s)[CHOOSE i \in about : \A j \in about : j <= i].new

(* box holds 1 .. m in turn; and what it then says of the story s.         *)
IsLog(box, m) == DOMAIN box = 1 .. m /\ \A i \in 1 .. m : box[i] = i

SaysWhat(box, s, m) ==
    /\ \A i \in 1 .. m : ReadOf(box, s)[i] = s[i]
    /\ \A k : (\A i \in 1 .. m : s[i].key # k) => LastOf(box, s, k) = NoAddrs
    /\ \A k : \A u \in 1 .. m :
            s[u].key = k /\ (\A w \in 1 .. m : s[w].key = k => w <= u)
                => LastOf(box, s, k) = s[u].new

(* Somebody who has the first m events of s has read just those.           *)
LEMMA Reading ==
    ASSUME NEW s, NEW box, NEW m \in Nat, IsLog(box, m)
    PROVE  SaysWhat(box, s, m)
<1> USE DEF IsLog
<1>1. \A i \in 1 .. m : ReadOf(box, s)[i] = s[i]
  BY DEF ReadOf
<1>2. ASSUME NEW k, \A i \in 1 .. m : s[i].key # k PROVE LastOf(box, s, k) = NoAddrs
  BY <1>1, <1>2 DEF LastOf
<1>3. ASSUME NEW k, NEW u \in 1 .. m, s[u].key = k,
             \A w \in 1 .. m : s[w].key = k => w <= u
      PROVE  LastOf(box, s, k) = s[u].new
  <2> DEFINE about == {i \in DOMAIN box : ReadOf(box, s)[i].key = k}
             c == CHOOSE i \in about : \A j \in about : j <= i
  <2>1. u \in about /\ \A j \in about : j \in 1 .. m /\ j <= u
    BY <1>1, <1>3
  <2>2. c \in about /\ \A j \in about : j <= c
    BY <2>1
  <2>3. c = u
    BY <2>1, <2>2
  <2>4. LastOf(box, s, k) = ReadOf(box, s)[c].new
    BY <2>1 DEF LastOf
  <2> QED
    BY <1>1, <2>3, <2>4
<1> QED
  BY <1>1, <1>2, <1>3 DEF SaysWhat

(* A notifier's subscribers have read what its inbox holds of the story.   *)
LEMMA ReadersView ==
    ASSUME NEW n \in Notifiers
    PROVE  /\ Read(n) = ReadOf(inbox[n], story) /\ Read(n)' = ReadOf(inbox'[n], story')
           /\ \A k : /\ LastTold(n, k) = LastOf(inbox[n], story, k)
                     /\ LastTold(n, k)' = LastOf(inbox'[n], story', k)
BY DEF Read, ReadOf, LastTold, LastOf

(* The next event of the story is the next entry of the reader's ledger.   *)
LEMMA ReadNext ==
    ASSUME StoryInv, NEW n \in Notifiers, taken \in Nat, taken > 0, story' = story,
           inbox[n] \in Seq(D!Events), Len(inbox[n]) = taken - 1,
           \A i \in 1 .. Len(inbox[n]) : inbox[n][i] = i,
           inbox'[n] = Append(inbox[n], taken), taken \in D!Events
    PROVE  Reader(n)!Next
<1> DEFINE m == taken - 1
           e == story[taken]
<1>0. /\ m \in Nat /\ taken = m + 1 /\ m \in 0 .. taken
      /\ Len(inbox[n]) = m /\ e = story[m + 1] /\ Len(story) = m + 1
  BY DEF StoryInv
<1>1. /\ e \in PP!Event /\ e.key \in P!Keys /\ e.old \in P!Lists /\ e.new \in P!Lists
      /\ e = [key |-> e.key, old |-> e.old, new |-> e.new]
  <2>1. e \in PP!Event
    BY <1>0, LenProperties DEF StoryInv
  <2> QED
    BY <2>1, SamePipeline DEF PP!Event
<1> HIDE DEF m, e
<1>2. DOMAIN inbox[n] = 1 .. m /\ \A i \in 1 .. m : inbox[n][i] = i
  BY <1>0, LenProperties
<1>3. DOMAIN inbox'[n] = 1 .. m + 1 /\ \A i \in 1 .. m + 1 : inbox'[n][i] = i
  <2>1. /\ inbox'[n] \in Seq(D!Events) /\ Len(inbox'[n]) = m + 1
        /\ \A i \in 1 .. m : inbox'[n][i] = inbox[n][i]
        /\ inbox'[n][m + 1] = taken
    BY <1>0, AppendProperties
  <2>2. DOMAIN inbox'[n] = 1 .. m + 1
    BY <2>1, LenProperties
  <2>3. ASSUME NEW i \in 1 .. m + 1 PROVE inbox'[n][i] = i
    <3>1. CASE i \in 1 .. m
      BY <1>2, <2>1, <3>1
    <3>2. CASE i = m + 1
      BY <1>0, <2>1, <3>2
    <3> QED
      BY <1>0, <3>1, <3>2
  <2> QED
    BY <2>2, <2>3
<1>4. /\ \A i \in 1 .. m : Read(n)[i] = story[i]
      /\ \A k : (\A i \in 1 .. m : story[i].key # k) => LastTold(n, k) = NoAddrs
      /\ \A k : \A u \in 1 .. m : Latest(u, m, k) => LastTold(n, k) = story[u].new
  <2>1. m \in Nat /\ m + 1 \in Nat
    BY <1>0
  <2>2. IsLog(inbox[n], m)
    BY <1>2 DEF IsLog
  <2>3. SaysWhat(inbox[n], story, m)
    BY <2>1, <2>2, Reading
  <2> QED
    BY <2>3, ReadersView DEF SaysWhat, Latest
<1>5. /\ \A i \in 1 .. m + 1 : Read(n)'[i] = story[i]
      /\ \A k : (\A i \in 1 .. m + 1 : story[i].key # k) => LastTold(n, k)' = NoAddrs
      /\ \A k : \A u \in 1 .. m + 1 : Latest(u, m + 1, k) => LastTold(n, k)' = story[u].new
  <2>1. m \in Nat /\ m + 1 \in Nat
    BY <1>0
  <2>2. IsLog(inbox'[n], m + 1)
    BY <1>3 DEF IsLog
  <2>3. SaysWhat(inbox'[n], story, m + 1)
    BY <2>1, <2>2, Reading
  <2>4. /\ Read(n)' = ReadOf(inbox'[n], story)
        /\ \A k : LastTold(n, k)' = LastOf(inbox'[n], story, k)
    BY ReadersView
  <2> QED
    BY <2>3, <2>4 DEF SaysWhat, Latest
<1>6. KnownTo(n)' = KnownTo(n) \cup {e.key}
  <2>1. KnownTo(n) = {story[i].key : i \in 1 .. m}
    <3>1. \A i \in DOMAIN inbox[n] : Read(n)[i].key = story[i].key
      BY <1>2, <1>4
    <3> QED
      BY <1>2, <3>1 DEF KnownTo
  <2>2. KnownTo(n)' = {story[i].key : i \in 1 .. m + 1}
    <3>1. \A i \in DOMAIN inbox'[n] : Read(n)'[i].key = story[i].key
      BY <1>3, <1>5
    <3> QED
      BY <1>3, <3>1 DEF KnownTo
  <2> QED
    BY <1>0, <2>1, <2>2
<1>7. NoteTo(n)' = e
  <2>1. inbox'[n] # <<>> /\ Len(inbox'[n]) = m + 1
    BY <1>0, AppendProperties
  <2> QED
    BY <1>0, <1>5, <2>1 DEF NoteTo
<1>8. ASSUME NEW k \in PP!Keys
      PROVE  LastTold(n, k)' = IF k = e.key THEN e.new ELSE LastTold(n, k)
  <2>1. CASE k = e.key
    <3>1. Latest(m + 1, m + 1, k)
      BY <1>0, <2>1 DEF Latest
    <3> QED
      BY <1>0, <1>5, <2>1, <3>1
  <2>2. CASE k # e.key /\ \A i \in 1 .. m : story[i].key # k
    <3>1. \A i \in 1 .. m + 1 : story[i].key # k
      BY <1>0, <2>2
    <3> QED
      BY <1>4, <1>5, <2>2, <3>1
  <2>3. CASE k # e.key /\ \E i \in 1 .. m : story[i].key = k
    <3>1. PICK u \in 1 .. m : Latest(u, m, k)
      BY <1>0, <2>3 DEF StoryInv
    <3>2. u \in 1 .. m + 1 /\ Latest(u, m + 1, k)
      BY <1>0, <2>3, <3>1 DEF Latest
    <3> QED
      BY <1>4, <1>5, <2>3, <3>1, <3>2
  <2> QED
    BY <2>1, <2>2, <2>3
<1>9. ToldTo(n)' = [ToldTo(n) EXCEPT ![e.key] = e.new]
  BY <1>1, <1>8, SamePipeline DEF ToldTo
<1>10. e.old # e.new
  BY <1>0 DEF StoryInv, PP!Linked, PP!Slots
<1>11. CASE e.key \in KnownTo(n)
  <2>1. \E i \in 1 .. m : story[i].key = e.key
    BY <1>2, <1>4, <1>11 DEF KnownTo
  <2>2. PICK u \in 1 .. m : Latest(u, m, e.key)
    BY <1>0, <1>1, <2>1, SamePipeline DEF StoryInv
  <2>3. PP!Adjacent(story, u, taken)
    BY <1>0, <2>2 DEF Latest, PP!Adjacent, PP!Slots, StoryInv
  <2>4. story[u].new = e.old
    BY <1>0, <2>3 DEF StoryInv, PP!Linked, PP!Slots
  <2>5. ToldTo(n)[e.key] = e.old
    BY <1>1, <1>4, <2>2, <2>4 DEF ToldTo
  <2> QED
    BY <1>1, <1>6, <1>7, <1>9, <1>10, <1>11, <2>5 DEF Reader!Next, Reader!Tell
<1>12. CASE e.key \notin KnownTo(n)
  <2>1. \A i \in 1 .. m : story[i].key # e.key
    BY <1>2, <1>4, <1>12 DEF KnownTo
  <2>2. PP!FirstOf(story, taken)
    BY <1>0, <2>1 DEF PP!FirstOf, PP!Slots, StoryInv
  <2>3. e.new # NoAddrs
    BY <1>0, <2>2 DEF StoryInv
  <2> QED
    BY <1>1, <1>6, <1>7, <1>9, <1>10, <1>12, <2>3 DEF Reader!Next, Reader!Tell
<1> QED
  BY <1>11, <1>12

(* At the start nobody has read anything.                                  *)
LEMMA FirstPage == ASSUME Init, NEW n \in Healthy PROVE Reader(n)!Init
<1>1. n \in Notifiers /\ inbox[n] = <<>>
  BY EndToEndAssumption DEF Init, D!Init
<1>2. \A k : LastTold(n, k) = NoAddrs
  BY <1>1 DEF LastTold
<1>3. ToldTo(n) = [k \in P!Keys |-> NoAddrs] /\ KnownTo(n) = {}
  BY <1>1, <1>2 DEF ToldTo, KnownTo
<1>4. NoteTo(n) = [key |-> Public, old |-> NoAddrs, new |-> NoAddrs]
  BY <1>1 DEF NoteTo
<1> QED
  BY <1>3, <1>4 DEF Reader!Init, P!Keys, P!Lists

(* What reaches the subscribers of a healthy notifier is one unbroken      *)
(* ledger of the machine's addresses, for any number of interfaces,        *)
(* notifiers and retries and any capacity of the channel.                  *)
THEOREM HealthyLedger == Spec => HealthyReadALedger
<1>1. Init => \A n \in Healthy : Reader(n)!Init
  BY FirstPage
<1>2. LoopInv /\ HealthyInv /\ StoryInv /\ [Next]_vars
        => \A n \in Healthy : inbox'[n] # inbox[n] => Reader(n)!Next
  <2> SUFFICES ASSUME LoopInv, HealthyInv, StoryInv, [Next]_vars,
                      NEW n \in Healthy, inbox'[n] # inbox[n]
               PROVE  Reader(n)!Next
    OBVIOUS
  <2>1. n \in Notifiers /\ Follows(n)
    BY EndToEndAssumption DEF HealthyInv
  <2>2. Deliver(n)
    BY <2>1, OthersFollow
  <2>3. Len(inbox[n]) = taken - 1 /\ inbox'[n] = Append(inbox[n], taken)
    BY <2>1, <2>2, DeliverFollows
  <2>4. taken \in D!Events /\ taken \in Nat /\ taken > 0 /\ story' = story
    BY <2>1, <2>2, DeliverFacts, Dispatching
  <2>5. inbox[n] \in Seq(D!Events) /\ \A i \in 1 .. Len(inbox[n]) : inbox[n][i] = i
    BY <2>1, Dispatching DEF LoopInv, DP!JobsTyped, Follows
  <2> QED
    BY <2>1, <2>3, <2>4, <2>5, ReadNext
<1> QED
  BY <1>1, <1>2, LoopHolds, HealthyFollow, StoryHolds, PTL DEF Spec, HealthyReadALedger

----------------------------------------------------------------------------
(* What is in the channel for Delivery.  Acceptable is a set of places in  *)
(* it; here it is one of any channel, and of any set of keys seen.         *)

AcceptableIn(q, known) == {n \in PP!Slots(q) :
    ~ (q[n].key \notin known /\ q[n].new = NoAddrs /\ PP!FirstOf(q, n))}

LEMMA AcceptableHere ==
    ASSUME PP!TypeOK
    PROVE  Acceptable = AcceptableIn(events, changedKeys)
BY LenProperties DEF PP!TypeOK, Acceptable, AcceptableIn, P!FirstOf, PP!FirstOf, P!Slots, PP!Slots

LEMMA AcceptableThen ==
    ASSUME PP!TypeOK'
    PROVE  Acceptable' = AcceptableIn(events', changedKeys')
BY LenProperties DEF PP!TypeOK, Acceptable, AcceptableIn, P!FirstOf, PP!FirstOf, P!Slots, PP!Slots

LEMMA UpTo == ASSUME NEW N \in Nat PROVE IsFiniteSet(1 .. N) /\ Cardinality(1 .. N) = N
BY FS_Interval

LEMMA AcceptableCount ==
    ASSUME NEW q \in Seq(PP!Event), NEW known
    PROVE  /\ IsFiniteSet(AcceptableIn(q, known))
           /\ Cardinality(AcceptableIn(q, known)) \in Nat
           /\ Cardinality(AcceptableIn(q, known)) <= Len(q)
<1>1. Len(q) \in Nat /\ AcceptableIn(q, known) \in SUBSET (1 .. Len(q))
  BY LenProperties DEF AcceptableIn, PP!Slots
<1>2. IsFiniteSet(1 .. Len(q)) /\ Cardinality(1 .. Len(q)) = Len(q)
  BY <1>1, UpTo
<1> QED
  BY <1>1, <1>2, FS_Subset, FS_CardinalityType

(* A send changes nothing for the events before it.                        *)
LEMMA AcceptableAppend ==
    ASSUME NEW q \in Seq(PP!Event), NEW e \in PP!Event, NEW known
    PROVE  Cardinality(AcceptableIn(Append(q, e), known)) \in
               {Cardinality(AcceptableIn(q, known)), Cardinality(AcceptableIn(q, known)) + 1}
<1> DEFINE N == Len(q)
           r == Append(q, e)
           A == AcceptableIn(q, known)
<1>1. /\ N \in Nat /\ Len(r) = N + 1
      /\ \A n \in 1 .. N : r[n] = q[n]
  BY AppendProperties, LenProperties
<1> HIDE DEF r
<1>2. \A n \in 1 .. N : PP!FirstOf(r, n) <=> PP!FirstOf(q, n)
  BY <1>1 DEF PP!FirstOf, PP!Slots
<1>3. \A n \in 1 .. N : n \in AcceptableIn(r, known) <=> n \in A
  BY <1>1, <1>2 DEF AcceptableIn, PP!Slots
<1>4. A \in SUBSET (1 .. N) /\ AcceptableIn(r, known) \in SUBSET (1 .. N + 1)
  BY <1>1 DEF AcceptableIn, PP!Slots
<1>5. AcceptableIn(r, known) = A \/ AcceptableIn(r, known) = A \cup {N + 1}
  <2> DEFINE R == AcceptableIn(r, known)
  <2>1. \A n : n \in R => n \in 1 .. N \/ n = N + 1
    BY <1>1, <1>4
  <2> HIDE DEF R, A, N
  <2>2. CASE N + 1 \in R
    <3>1. \A n : n \in R <=> n \in A \cup {N + 1}
      BY <1>3, <1>4, <2>1, <2>2 DEF R
    <3> QED
      BY <3>1 DEF R
  <2>3. CASE N + 1 \notin R
    <3>1. \A n : n \in R <=> n \in A
      BY <1>3, <1>4, <2>1, <2>3 DEF R
    <3> QED
      BY <3>1 DEF R
  <2> QED
    BY <2>2, <2>3
<1>6. IsFiniteSet(A) /\ N + 1 \notin A
  BY <1>1, <1>4, AcceptableCount
<1> HIDE DEF A
<1>7. Cardinality(A \cup {N + 1}) = Cardinality(A) + 1
  BY <1>6, FS_AddElement
<1> QED
  BY <1>5, <1>7 DEF r, A

(* Places that move up by one.                                             *)
LEMMA Shift ==
    ASSUME NEW N \in Nat, NEW A \in SUBSET (1 .. N + 1)
    PROVE  Cardinality({n \in 1 .. N : n + 1 \in A})
               = IF 1 \in A THEN Cardinality(A) - 1 ELSE Cardinality(A)
<1> DEFINE B == {n \in 1 .. N : n + 1 \in A}
           f == [n \in B |-> n + 1]
<1>1. IsFiniteSet(A)
  <2>1. IsFiniteSet(1 .. N + 1)
    BY FS_Interval
  <2> QED
    BY <2>1, FS_Subset
<1>2. IsFiniteSet(B)
  <2>1. IsFiniteSet(1 .. N) /\ B \in SUBSET (1 .. N)
    BY FS_Interval
  <2> QED
    BY <2>1, FS_Subset
<1>3. f \in Bijection(B, A \ {1})
  <2>1. f \in [B -> A \ {1}]
    OBVIOUS
  <2>2. \A m, n \in B : f[m] = f[n] => m = n
    OBVIOUS
  <2>3. ASSUME NEW a \in A \ {1} PROVE a - 1 \in B /\ f[a - 1] = a
    OBVIOUS
  <2> HIDE DEF f, B
  <2>4. \A a \in A \ {1} : \E n \in B : f[n] = a
    BY <2>3
  <2> QED
    BY <2>1, <2>2, <2>4 DEF Bijection, Injection, Surjection, IsInjective
<1> HIDE DEF f, B
<1>4. Cardinality(B) = Cardinality(A \ {1})
  BY <1>2, <1>3, FS_Bijection DEF ExistsBijection
<1>5. Cardinality(A \ {1}) = IF 1 \in A THEN Cardinality(A) - 1 ELSE Cardinality(A)
  BY <1>1, FS_RemoveElement
<1> QED
  BY <1>4, <1>5 DEF B

(* The loop takes the first event.  Either it drops it, which was not      *)
(* acceptable, or it is one and its key is seen from then on; the others   *)
(* are what they were.                                                     *)
LEMMA AcceptableTail ==
    ASSUME NEW q \in Seq(PP!Event), q # <<>>, PP!Linked(q), NEW known, NEW known2,
           \/ /\ known2 = known
              /\ Head(q).key \notin known /\ Head(q).new = NoAddrs
           \/ /\ known2 = known \cup {Head(q).key}
              /\ Head(q).key \in known \/ Head(q).new # NoAddrs
    PROVE  Cardinality(AcceptableIn(Tail(q), known2))
               = IF Head(q).key \in known2 THEN Cardinality(AcceptableIn(q, known)) - 1
                 ELSE Cardinality(AcceptableIn(q, known))
<1> DEFINE e == Head(q)
           r == Tail(q)
           N == Len(r)
           A == AcceptableIn(q, known)
<1>1. /\ Len(q) \in Nat \ {0} /\ N = Len(q) - 1 /\ r \in Seq(PP!Event)
      /\ \A n \in PP!Slots(r) : n + 1 \in PP!Slots(q) /\ r[n] = q[n + 1]
      /\ q[1] = e
  BY EndToEndAssumption, Assumptions, PP!TailFacts, HeadTailProperties
<1> HIDE DEF e, r
<1>2. 1 \in A <=> e.key \in known2
  <2>1. PP!FirstOf(q, 1) /\ 1 \in PP!Slots(q)
    BY <1>1 DEF PP!FirstOf, PP!Slots
  <2> QED
    BY <1>1, <2>1 DEF AcceptableIn, e
<1>3. ASSUME NEW n \in 1 .. N, q[n + 1].key # e.key
      PROVE  PP!FirstOf(r, n) <=> PP!FirstOf(q, n + 1)
  <2>1. ASSUME PP!FirstOf(q, n + 1), NEW m \in 1 .. N, r[m].key = r[n].key PROVE m >= n
    <3>1. /\ m + 1 \in PP!Slots(q) /\ r[m] = q[m + 1] /\ r[n] = q[n + 1]
      BY <1>1, <2>1 DEF PP!Slots
    <3>2. m + 1 >= n + 1
      BY <2>1, <3>1 DEF PP!FirstOf
    <3> QED
      BY <1>1, <2>1, <3>2
  <2>2. ASSUME PP!FirstOf(r, n), NEW m \in 1 .. Len(q), q[m].key = q[n + 1].key PROVE m >= n + 1
    <3>1. m # 1 /\ m - 1 \in PP!Slots(r)
      BY <1>1, <1>3, <2>2 DEF PP!Slots
    <3>2. r[m - 1] = q[m] /\ r[n] = q[n + 1]
      BY <1>1, <3>1 DEF PP!Slots
    <3> QED
      BY <1>1, <2>2, <3>1, <3>2 DEF PP!FirstOf
  <2> QED
    BY <2>1, <2>2 DEF PP!FirstOf, PP!Slots
<1>4. ASSUME NEW n \in 1 .. N, q[n + 1].key = e.key, e.key \notin known2, PP!FirstOf(r, n)
      PROVE  r[n].new # NoAddrs
  <2>1. ASSUME NEW j \in PP!Slots(q), q[j].key = q[n + 1].key PROVE j <= 1 \/ j >= n + 1
    <3>1. CASE j > 1
      <4>1. /\ j - 1 \in PP!Slots(r) /\ r[j - 1] = q[j] /\ r[n] = q[n + 1]
            /\ j \in Nat /\ n \in Nat
        BY <1>1, <2>1, <3>1 DEF PP!Slots
      <4>2. j - 1 >= n
        BY <1>4, <2>1, <4>1 DEF PP!FirstOf
      <4> QED
        BY <4>1, <4>2
    <3> QED
      BY <3>1, <1>1, <2>1 DEF PP!Slots
  <2>2. 1 \in PP!Slots(q) /\ n + 1 \in PP!Slots(q)
    BY <1>1 DEF PP!Slots
  <2>3. q[1].new = q[n + 1].old /\ q[n + 1].old # q[n + 1].new
    BY <1>1, <1>4, <2>1, <2>2 DEF PP!Linked, PP!Adjacent
  <2>4. e.new = NoAddrs
    BY <1>4 DEF e
  <2> QED
    BY <1>1, <2>3, <2>4 DEF PP!Slots
<1>5. ASSUME NEW n \in 1 .. N PROVE n \in AcceptableIn(r, known2) <=> n + 1 \in A
  <2>1. /\ r[n] = q[n + 1] /\ n \in PP!Slots(r) /\ n + 1 \in PP!Slots(q)
    BY <1>1 DEF PP!Slots
  <2>2. CASE q[n + 1].key # e.key
    <3>1. q[n + 1].key \in known2 <=> q[n + 1].key \in known
      BY <2>2 DEF e
    <3> QED
      BY <1>3, <2>1, <2>2, <3>1 DEF AcceptableIn
  <2>3. CASE q[n + 1].key = e.key
    <3>1. ~PP!FirstOf(q, n + 1)
      <4>1. 1 \in PP!Slots(q) /\ ~(1 >= n + 1)
        BY <1>1 DEF PP!Slots
      <4> QED
        BY <1>1, <2>3, <4>1 DEF PP!FirstOf
    <3>2. n + 1 \in A
      BY <2>1, <3>1 DEF AcceptableIn
    <3>3. n \in AcceptableIn(r, known2)
      BY <1>4, <2>1, <2>3 DEF AcceptableIn
    <3> QED
      BY <3>2, <3>3
  <2> QED
    BY <2>2, <2>3
<1>6. AcceptableIn(r, known2) = {n \in 1 .. N : n + 1 \in A}
  BY <1>5 DEF AcceptableIn, PP!Slots
<1>7. N \in Nat /\ A \in SUBSET (1 .. N + 1)
  BY <1>1 DEF AcceptableIn, PP!Slots
<1> HIDE DEF A, N
<1>8. Cardinality(AcceptableIn(r, known2)) = IF 1 \in A THEN Cardinality(A) - 1 ELSE Cardinality(A)
  BY <1>6, <1>7, Shift
<1> QED
  BY <1>2, <1>8 DEF e, r, A


----------------------------------------------------------------------------
(* How many events there can be: the bound on them cuts nothing off.       *)

(* n faults: each may make every interface go and come back.               *)
Worth(n) == (2 * Cardinality(Interfaces)) * n

LEMMA Products ==
    ASSUME NEW k \in Nat, NEW m \in Nat, NEW n \in Nat
    PROVE  k * n \in Nat /\ k * (n + 1) = k * n + k /\ (m <= n => k * m <= k * n)
<1>1. k * n \in Nat /\ k * m \in Nat /\ k * (n + 1) = k * n + k
  OBVIOUS
<1>2. CASE m <= n
  <2>1. n - m \in Nat /\ k * (n - m) >= 0
    BY <1>2
  <2>2. k * n = k * m + k * (n - m)
    OBVIOUS
  <2>3. k * (n - m) \in Int
    OBVIOUS
  <2> QED
    BY <1>1, <2>1, <2>2, <2>3
<1> QED
  BY <1>1, <1>2

LEMMA Sizes ==
    /\ Cardinality(Interfaces) \in Nat
    /\ MaxChanges \in Nat /\ MaxFaults \in Nat /\ MaxAnswers \in Nat /\ MaxEvents \in Nat
BY EndToEndAssumption, FS_CardinalityType

LEMMA Worths ==
    ASSUME NEW m \in Nat, NEW n \in Nat
    PROVE  /\ Worth(n) \in Nat /\ Worth(n + 1) = Worth(n) + 2 * Cardinality(Interfaces)
           /\ m <= n => Worth(m) <= Worth(n)
           /\ MaxEvents >= MaxChanges + Worth(MaxFaults) + MaxAnswers
<1>1. Cardinality(Interfaces) \in Nat /\ 2 * Cardinality(Interfaces) \in Nat
  BY Sizes
<1>2. 2 * MaxFaults * Cardinality(Interfaces) = 2 * Cardinality(Interfaces) * MaxFaults
  BY <1>1, Sizes
<1>3. MaxEvents >= MaxChanges + 2 * MaxFaults * Cardinality(Interfaces) + MaxAnswers
  BY EndToEndAssumption
<1> QED
  BY <1>1, <1>2, <1>3, Products DEF Worth

(* The interfaces on which the watcher's last snapshot is not what there   *)
(* is: the next one may send an event of each.                             *)
Behind == {i \in Interfaces : wpc["local"] \in {"idle", "sending"} /\ cur[i] # addrs[i]}

(* What has been accepted, waits in the channel or at a watcher, or would  *)
(* be sent next; and what there has been cause for.                        *)
Load  == taken + Len(events) + Cardinality(todo) + Cardinality(Behind)
Cause == (MaxChanges - budget["change"]) + Worth(MaxFaults - budget["fault"])
             + (MaxAnswers - budget["answer"])

RoomInv ==
    /\ budget["change"] <= MaxChanges /\ budget["fault"] <= MaxFaults
    /\ budget["answer"] <= MaxAnswers
    /\ Load <= Cause

(* Sets of interfaces and of keys.                                         *)
LEMMA PartOfKeys ==
    ASSUME NEW S \in SUBSET PP!Keys
    PROVE  IsFiniteSet(S) /\ Cardinality(S) \in Nat
<1>1. IsFiniteSet(Interfaces \cup {Public})
  BY EndToEndAssumption, FS_AddElement
<1> QED
  BY <1>1, FS_Subset, FS_CardinalityType DEF PP!Keys

LEMMA PartOfInterfaces ==
    ASSUME NEW S \in SUBSET Interfaces
    PROVE  /\ IsFiniteSet(S) /\ Cardinality(S) \in Nat
           /\ Cardinality(S) <= Cardinality(Interfaces) /\ S \in SUBSET PP!Keys
BY EndToEndAssumption, FS_Subset, FS_CardinalityType DEF PP!Keys

LEMMA Together ==
    ASSUME NEW S \in SUBSET PP!Keys, NEW T \in SUBSET PP!Keys
    PROVE  Cardinality(S \cup T) <= Cardinality(S) + Cardinality(T)
<1>1. /\ IsFiniteSet(S) /\ IsFiniteSet(T) /\ S \cap T \in SUBSET PP!Keys
      /\ Cardinality(S) \in Nat /\ Cardinality(T) \in Nat
  BY PartOfKeys
<1>2. Cardinality(S \cup T) = Cardinality(S) + Cardinality(T) - Cardinality(S \cap T)
  BY <1>1, FS_Union
<1>3. Cardinality(S \cap T) \in Nat
  BY <1>1, PartOfKeys
<1> QED
  BY <1>1, <1>2, <1>3

LEMMA OneMore ==
    ASSUME NEW S \in SUBSET PP!Keys, NEW k \in PP!Keys, NEW T \in SUBSET (S \cup {k})
    PROVE  Cardinality(T) <= Cardinality(S) + 1
<1>1. IsFiniteSet({k}) /\ Cardinality({k}) = 1 /\ {k} \in SUBSET PP!Keys /\ S \cup {k} \in SUBSET PP!Keys
  BY FS_Singleton
<1>2. /\ Cardinality(S \cup {k}) <= Cardinality(S) + 1
      /\ Cardinality(T) <= Cardinality(S \cup {k})
  BY <1>1, Together, PartOfKeys, FS_Subset
<1>3. /\ Cardinality(S \cup {k}) \in Nat /\ Cardinality(S) \in Nat /\ Cardinality(T) \in Nat
  BY <1>1, PartOfKeys
<1> QED
  BY <1>2, <1>3

LEMMA OneLess ==
    ASSUME NEW S \in SUBSET PP!Keys, NEW k \in S
    PROVE  Cardinality(S \ {k}) = Cardinality(S) - 1
BY PartOfKeys, FS_RemoveElement

LEMMA RoomTypes ==
    ASSUME PP!TypeOK, LoopInv, RoomInv
    PROVE  /\ taken \in Nat /\ Len(events) \in Nat
           /\ todo \in SUBSET PP!Keys /\ Cardinality(todo) \in Nat
           /\ Behind \in SUBSET Interfaces /\ Cardinality(Behind) \in Nat
           /\ budget["change"] \in Nat /\ budget["fault"] \in Nat /\ budget["answer"] \in Nat
           /\ MaxChanges - budget["change"] \in Nat /\ MaxFaults - budget["fault"] \in Nat
           /\ MaxAnswers - budget["answer"] \in Nat
           /\ Worth(MaxFaults - budget["fault"]) \in Nat
           /\ Load \in Nat /\ Cause \in Nat
<1>1. /\ taken \in Nat /\ Len(events) \in Nat /\ todo \in SUBSET PP!Keys /\ Behind \in SUBSET Interfaces
  BY LenProperties, Sizes DEF PP!TypeOK, LoopInv, Behind
<1>2. Cardinality(todo) \in Nat /\ Cardinality(Behind) \in Nat
  BY <1>1, PartOfKeys, PartOfInterfaces
<1>3. budget["change"] \in Nat /\ budget["fault"] \in Nat /\ budget["answer"] \in Nat
  BY DEF PP!TypeOK
<1>4. /\ MaxChanges - budget["change"] \in Nat /\ MaxFaults - budget["fault"] \in Nat
      /\ MaxAnswers - budget["answer"] \in Nat
  BY <1>3, Sizes DEF RoomInv
<1>5. Worth(MaxFaults - budget["fault"]) \in Nat
  BY <1>4, Worths
<1>6. Load \in Nat
  BY <1>1, <1>2 DEF Load
<1>7. Cause \in Nat
  BY <1>4, <1>5 DEF Cause
<1> QED
  BY <1>1, <1>2, <1>3, <1>4, <1>5, <1>6, <1>7

LEMMA LoadIsBounded ==
    ASSUME PP!TypeOK, LoopInv, RoomInv
    PROVE  Load <= MaxEvents
<1> DEFINE c == MaxChanges - budget["change"]
           f == MaxFaults - budget["fault"]
           a == MaxAnswers - budget["answer"]
<1>1. c \in Nat /\ f \in Nat /\ a \in Nat /\ Worth(f) \in Nat /\ Load \in Nat
  BY RoomTypes
<1>2. c <= MaxChanges /\ f <= MaxFaults /\ a <= MaxAnswers
  <2>1. budget["change"] \in Nat /\ budget["fault"] \in Nat /\ budget["answer"] \in Nat
    BY RoomTypes
  <2> QED
    BY <2>1, Sizes
<1>3. Load <= c + Worth(f) + a
  BY DEF RoomInv, Cause
<1> HIDE DEF c, f, a
<1>4. Worth(f) <= Worth(MaxFaults) /\ Worth(MaxFaults) \in Nat
  BY <1>1, <1>2, Sizes, Worths
<1>5. MaxEvents >= MaxChanges + Worth(MaxFaults) + MaxAnswers
  BY Sizes, Worths
<1> QED
  BY <1>1, <1>2, <1>3, <1>4, <1>5, Sizes

(* A step that costs nothing, a change or an answer, a fault.              *)
LEMMA Free ==
    ASSUME PP!TypeOK, LoopInv, RoomInv, UNCHANGED budget, Load' \in Int, Load' <= Load
    PROVE  RoomInv'
<1>1. Cause' = Cause /\ Cause \in Nat /\ Load \in Nat
  BY RoomTypes DEF Cause
<1>2. Load' <= Cause'
  BY <1>1 DEF RoomInv
<1> QED
  BY <1>2 DEF RoomInv

LEMMA Spent ==
    ASSUME PP!TypeOK, LoopInv, RoomInv, NEW kind \in {"change", "fault", "answer"},
           budget' = [budget EXCEPT ![kind] = @ - 1], Load' \in Int,
           Load' <= Load + (IF kind = "fault" THEN 2 * Cardinality(Interfaces) ELSE 1)
    PROVE  RoomInv'
<1> DEFINE c == MaxChanges - budget["change"]
           f == MaxFaults - budget["fault"]
           a == MaxAnswers - budget["answer"]
<1>1. /\ c \in Nat /\ f \in Nat /\ a \in Nat /\ Worth(f) \in Nat /\ Load \in Nat
      /\ budget["change"] \in Nat /\ budget["fault"] \in Nat /\ budget["answer"] \in Nat
  BY RoomTypes
<1>2. /\ budget'[kind] = budget[kind] - 1
      /\ \A k \in {"change", "fault", "answer"} : k # kind => budget'[k] = budget[k]
  BY DEF PP!TypeOK
<1>3. /\ MaxChanges - (budget["change"] - 1) = c + 1
      /\ MaxFaults - (budget["fault"] - 1) = f + 1
      /\ MaxAnswers - (budget["answer"] - 1) = a + 1
  BY <1>1, Sizes
<1>4. Cause = c + Worth(f) + a
  BY DEF Cause
<1>5. Worth(f + 1) = Worth(f) + 2 * Cardinality(Interfaces)
  BY <1>1, Worths
<1>6. Cause' = Cause + (IF kind = "fault" THEN 2 * Cardinality(Interfaces) ELSE 1)
  <2>1. CASE kind = "change"
    <3>1. Cause' = (MaxChanges - (budget["change"] - 1)) + Worth(f) + a
      BY <1>2, <2>1 DEF Cause
    <3> HIDE DEF c, f, a
    <3> QED
      BY <1>1, <1>3, <1>4, <2>1, <3>1
  <2>2. CASE kind = "fault"
    <3>1. Cause' = c + Worth(MaxFaults - (budget["fault"] - 1)) + a
      BY <1>2, <2>2 DEF Cause
    <3> HIDE DEF c, f, a
    <3> QED
      BY <1>1, <1>3, <1>4, <1>5, <2>2, <3>1, Sizes
  <2>3. CASE kind = "answer"
    <3>1. Cause' = c + Worth(f) + (MaxAnswers - (budget["answer"] - 1))
      BY <1>2, <2>3 DEF Cause
    <3> HIDE DEF c, f, a
    <3> QED
      BY <1>1, <1>3, <1>4, <2>3, <3>1
  <2> QED
    BY <2>1, <2>2, <2>3
<1>7. /\ budget'["change"] <= MaxChanges /\ budget'["fault"] <= MaxFaults
      /\ budget'["answer"] <= MaxAnswers
  <2>1. /\ budget'["change"] <= budget["change"] /\ budget'["fault"] <= budget["fault"]
        /\ budget'["answer"] <= budget["answer"]
        /\ budget'["change"] \in Int /\ budget'["fault"] \in Int /\ budget'["answer"] \in Int
    BY <1>1, <1>2
  <2> QED
    BY <1>1, <2>1, Sizes DEF RoomInv
<1> HIDE DEF c, f, a
<1>8. Cause \in Nat /\ Load <= Cause
  BY RoomTypes DEF RoomInv
<1>9. Load' <= Cause'
  BY <1>1, <1>6, <1>8, Sizes
<1> QED
  BY <1>7, <1>9 DEF RoomInv

(* The parts of the load after a step that accepts nothing and sends       *)
(* nothing.                                                                *)
LEMMA LoadOf ==
    ASSUME PP!TypeOK, LoopInv, RoomInv, UNCHANGED <<taken, events>>,
           todo' \in SUBSET PP!Keys
    PROVE  /\ Load = taken + Len(events) + Cardinality(todo) + Cardinality(Behind)
           /\ Load' = taken + Len(events) + Cardinality(todo') + Cardinality(Behind')
           /\ Load' \in Int
           /\ taken \in Nat /\ Len(events) \in Nat /\ Cardinality(todo) \in Nat
           /\ Cardinality(Behind) \in Nat /\ Cardinality(todo') \in Nat
           /\ Cardinality(Behind') \in Nat /\ Cardinality(Behind') <= Cardinality(Interfaces)
           /\ Cardinality(Interfaces) \in Nat
<1>1. /\ Load = taken + Len(events) + Cardinality(todo) + Cardinality(Behind)
      /\ Load' = taken + Len(events) + Cardinality(todo') + Cardinality(Behind')
  BY DEF Load
<1>2. Behind' \in SUBSET Interfaces
  BY DEF Behind
<1>3. /\ Cardinality(todo') \in Nat /\ Cardinality(Behind') \in Nat
      /\ Cardinality(Behind') <= Cardinality(Interfaces)
  BY <1>2, PartOfKeys, PartOfInterfaces
<1>4. /\ taken \in Nat /\ Len(events) \in Nat /\ Cardinality(todo) \in Nat
      /\ Cardinality(Behind) \in Nat
  BY RoomTypes
<1> QED
  BY <1>1, <1>3, <1>4, Sizes

LEMMA NetworkRoom ==
    ASSUME PP!TypeOK, LoopInv, RoomInv, UNCHANGED taken, NEW i \in Interfaces, P!NetworkChange(i)
    PROVE  RoomInv'
<1>1. /\ budget' = [budget EXCEPT !["change"] = @ - 1]
      /\ \E l : addrs' = [addrs EXCEPT ![i] = l]
      /\ UNCHANGED <<wpc, cur, todo, events>>
  BY DEF P!NetworkChange, P!Spend, P!watch, P!channel
<1>2. Behind' \subseteq Behind \cup {i}
  BY <1>1 DEF Behind, PP!TypeOK
<1>3. Cardinality(Behind') <= Cardinality(Behind) + 1
  <2>1. Behind \in SUBSET PP!Keys /\ i \in PP!Keys
    BY DEF Behind, PP!Keys
  <2> QED
    BY <1>2, <2>1, OneMore
<1>4. Load' \in Int /\ Load' <= Load + 1
  BY <1>1, <1>3, LoadOf DEF PP!TypeOK
<1> QED
  BY <1>1, <1>4, Spent

LEMMA BaselineRoom ==
    ASSUME PP!TypeOK, LoopInv, RoomInv, UNCHANGED taken, NEW lost \in SUBSET Interfaces,
           P!LocalBaseline(lost)
    PROVE  RoomInv'
<1>1. /\ wpc["local"] = "start" /\ P!TakeSnapshot(lost)
      /\ cur' = [k \in P!Keys |-> IF k = Public THEN cur[k] ELSE P!Snapshot(lost)[k]]
      /\ UNCHANGED <<addrs, todo, events>>
  BY DEF P!LocalBaseline, P!channel
<1>2. Cardinality(Behind) = 0
  <2>1. Behind = {}
    BY <1>1 DEF Behind
  <2> QED
    BY <2>1, FS_EmptySet
<1>3. todo' \in SUBSET PP!Keys
  BY <1>1 DEF PP!TypeOK
<1>4. CASE lost = {}
  <2>1. \A i \in Interfaces : cur'[i] = addrs[i]
    BY <1>1, <1>4, EndToEndAssumption DEF P!Snapshot, P!Keys
  <2>2. Cardinality(Behind') = 0
    <3>1. Behind' = {}
      BY <1>1, <2>1 DEF Behind
    <3> QED
      BY <3>1, FS_EmptySet
  <2>3. budget' = budget
    BY <1>1, <1>4 DEF P!TakeSnapshot
  <2>4. Load' \in Int /\ Load' <= Load
    BY <1>1, <1>2, <1>3, <2>2, LoadOf
  <2> QED
    BY <2>3, <2>4, Free
<1>5. CASE lost # {}
  <2>1. budget' = [budget EXCEPT !["fault"] = @ - 1]
    BY <1>1, <1>5 DEF P!TakeSnapshot, P!Spend
  <2>2. Load' \in Int /\ Load' <= Load + 2 * Cardinality(Interfaces)
    BY <1>1, <1>2, <1>3, LoadOf
  <2> QED
    BY <2>1, <2>2, Spent
<1> QED
  BY <1>4, <1>5

LEMMA TickRoom ==
    ASSUME PP!TypeOK, PP!Chain, LoopInv, RoomInv, UNCHANGED taken, NEW lost \in SUBSET Interfaces,
           P!LocalTick(lost)
    PROVE  RoomInv'
<1> DEFINE D0 == P!Diff(prev, P!Snapshot(lost))
<1>1. /\ wpc["local"] = "idle" /\ P!TakeSnapshot(lost)
      /\ cur' = [k \in P!Keys |-> IF k = Public THEN cur[k] ELSE P!Snapshot(lost)[k]]
      /\ todo' = todo \cup D0
      /\ wpc' = [wpc EXCEPT !["local"] = "sending"]
      /\ UNCHANGED <<addrs, events>>
  BY DEF P!LocalTick, P!channel, P!Goto
<1>2. \A i \in Interfaces : prev[i] = cur[i]
  BY <1>1 DEF PP!Chain, PP!WatchersInv
<1>3. /\ D0 \in SUBSET Interfaces /\ D0 \in SUBSET PP!Keys /\ todo \in SUBSET PP!Keys
      /\ todo' \in SUBSET PP!Keys
  BY <1>1 DEF P!Diff, PP!Keys, PP!TypeOK
<1>4. Cardinality(todo') <= Cardinality(todo) + Cardinality(D0) /\ Cardinality(D0) \in Nat
  BY <1>1, <1>3, Together, PartOfKeys
<1>5. Cardinality(D0) <= Cardinality(Interfaces)
  BY <1>3, PartOfInterfaces
<1>6. CASE lost = {}
  <2>1. \A i \in Interfaces : P!Snapshot(lost)[i] = addrs[i] /\ cur'[i] = addrs[i]
    BY <1>1, <1>6, EndToEndAssumption DEF P!Snapshot, P!Keys
  <2>2. D0 = Behind
    BY <1>1, <1>2, <2>1 DEF P!Diff, Behind
  <2>3. Cardinality(Behind') = 0 /\ Cardinality(D0) = Cardinality(Behind)
    <3>1. Behind' = {}
      BY <1>1, <2>1 DEF Behind
    <3> QED
      BY <2>2, <3>1, FS_EmptySet
  <2>4. budget' = budget
    BY <1>1, <1>6 DEF P!TakeSnapshot
  <2> HIDE DEF D0
  <2>5. Load' \in Int /\ Load' <= Load
    BY <1>1, <1>3, <1>4, <2>3, LoadOf
  <2> QED
    BY <2>4, <2>5, Free
<1>7. CASE lost # {}
  <2>1. budget' = [budget EXCEPT !["fault"] = @ - 1]
    BY <1>1, <1>7 DEF P!TakeSnapshot, P!Spend
  <2> HIDE DEF D0
  <2>2. Load' \in Int /\ Load' <= Load + 2 * Cardinality(Interfaces)
    BY <1>1, <1>3, <1>4, <1>5, LoadOf
  <2> QED
    BY <2>1, <2>2, Spent
<1> QED
  BY <1>6, <1>7


(* The steps that leave the interfaces and the snapshot as they are.       *)
LEMMA SameBehind ==
    ASSUME UNCHANGED addrs,
           wpc'["local"] \in {"idle", "sending"} <=> wpc["local"] \in {"idle", "sending"},
           \A i \in Interfaces : cur'[i] = cur[i]
    PROVE  Behind' = Behind
BY DEF Behind

(* An event goes from a watcher into the channel ...                       *)
LEMMA SendRoom ==
    ASSUME PP!TypeOK, LoopInv, RoomInv, UNCHANGED <<taken, budget>>, Behind' = Behind,
           NEW k \in todo, todo' = todo \ {k}, Len(events') = Len(events) + 1
    PROVE  RoomInv'
<1>1. /\ taken \in Nat /\ Len(events) \in Nat /\ todo \in SUBSET PP!Keys
      /\ Cardinality(todo) \in Nat /\ Cardinality(Behind) \in Nat
  BY RoomTypes
<1>2. Cardinality(todo') = Cardinality(todo) - 1
  BY <1>1, OneLess
<1>3. /\ Load = taken + Len(events) + Cardinality(todo) + Cardinality(Behind)
      /\ Load' = taken + (Len(events) + 1) + (Cardinality(todo) - 1) + Cardinality(Behind)
  BY <1>2 DEF Load
<1>4. Load' \in Int /\ Load' <= Load
  BY <1>1, <1>3
<1> QED
  BY <1>4, Free

(* ... the loop takes it off, and accepts it or not ...                    *)
LEMMA ReceiveRoom ==
    ASSUME PP!TypeOK, LoopInv, RoomInv, UNCHANGED <<budget, todo>>, Behind' = Behind,
           events # <<>>, events' = Tail(events), taken' \in {taken, taken + 1}
    PROVE  RoomInv'
<1>1. /\ taken \in Nat /\ Len(events) \in Nat
      /\ Cardinality(todo) \in Nat /\ Cardinality(Behind) \in Nat
  BY RoomTypes
<1>2. Len(events') = Len(events) - 1
  BY HeadTailProperties DEF PP!TypeOK
<1>3. /\ Load = taken + Len(events) + Cardinality(todo) + Cardinality(Behind)
      /\ Load' = taken' + (Len(events) - 1) + Cardinality(todo) + Cardinality(Behind)
  BY <1>2 DEF Load
<1>4. Load' \in Int /\ Load' <= Load
  BY <1>1, <1>3
<1> QED
  BY <1>4, Free

(* ... or nothing moves.                                                   *)
LEMMA QuietRoom ==
    ASSUME PP!TypeOK, LoopInv, RoomInv, UNCHANGED <<taken, budget, events, todo>>,
           Behind' \subseteq Behind
    PROVE  RoomInv'
<1>1. todo' \in SUBSET PP!Keys
  BY RoomTypes
<1>2. Cardinality(Behind') <= Cardinality(Behind)
  BY RoomTypes, PartOfInterfaces, FS_Subset
<1>3. Load' \in Int /\ Load' <= Load
  BY <1>1, <1>2, LoadOf
<1> QED
  BY <1>3, Free

LEMMA LocalSendRoom ==
    ASSUME PP!TypeOK, LoopInv, RoomInv, UNCHANGED taken, NEW i \in Interfaces, P!LocalSend(i)
    PROVE  RoomInv'
<1>1. /\ i \in todo /\ todo' = todo \ {i} /\ events' = Append(events, P!EventOf(i))
      /\ wpc["local"] = "sending"
      /\ wpc' = [wpc EXCEPT !["local"] = "idle"] \/ wpc' = wpc
      /\ UNCHANGED <<budget, addrs, cur>>
  BY DEF P!LocalSend, P!NextInDiff, P!Put, P!Goto, P!network
<1>2. wpc'["local"] \in {"idle", "sending"}
  BY <1>1 DEF PP!TypeOK, PP!Watchers
<1>3. Behind' = Behind
  BY <1>1, <1>2, SameBehind
<1>4. Len(events') = Len(events) + 1
  BY <1>1 DEF PP!TypeOK
<1> QED
  BY <1>1, <1>3, <1>4, SendRoom

LEMMA PublicRoom ==
    ASSUME PP!TypeOK, PP!Chain, LoopInv, RoomInv, UNCHANGED taken, P!PublicStep
    PROVE  RoomInv'
<1>0. Public \in PP!Keys /\ Public \notin Interfaces
  BY EndToEndAssumption DEF PP!Keys
<1>1. ASSUME NEW ip \in P!Lists, P!PublicBaseline(ip) PROVE RoomInv'
  <2>1. /\ UNCHANGED <<addrs, budget, todo, events>> /\ cur' = [cur EXCEPT ![Public] = ip]
        /\ wpc' = [wpc EXCEPT !["public"] = "idle"]
    BY <1>1 DEF P!PublicBaseline, P!Goto, P!network, P!channel
  <2>2. Behind' = Behind
    BY <1>0, <2>1, SameBehind DEF PP!TypeOK
  <2> QED
    BY <2>1, <2>2, QuietRoom
<1>2. ASSUME NEW ip \in Addrs, P!PublicTick(ip) PROVE RoomInv'
  <2>1. /\ UNCHANGED <<addrs, events>> /\ cur' = [cur EXCEPT ![Public] = ip]
        /\ wpc' = [wpc EXCEPT !["public"] = "sending"]
        /\ todo' = todo \cup {Public}
        /\ budget' = [budget EXCEPT !["answer"] = @ - 1]
    BY <1>2 DEF P!PublicTick, P!Goto, P!Spend, P!channel
  <2>2. Behind' = Behind
    BY <1>0, <2>1, SameBehind DEF PP!TypeOK
  <2>3. todo \in SUBSET PP!Keys /\ todo' \in SUBSET PP!Keys
    BY <1>0, <2>1, RoomTypes
  <2>4. Cardinality(todo') <= Cardinality(todo) + 1
    BY <1>0, <2>1, <2>3, OneMore
  <2>5. Load' \in Int /\ Load' <= Load + 1
    BY <2>1, <2>2, <2>3, <2>4, LoadOf
  <2> QED
    BY <2>1, <2>5, Spent
<1>3. CASE P!PublicSend
  <2>1. /\ wpc["public"] = "sending" /\ todo' = todo \ {Public}
        /\ events' = Append(events, P!EventOf(Public))
        /\ wpc' = [wpc EXCEPT !["public"] = "idle"]
        /\ UNCHANGED <<budget, addrs, cur>>
    BY <1>3 DEF P!PublicSend, P!Put, P!Goto, P!network
  <2>2. Public \in todo
    BY <2>1 DEF PP!Chain, PP!WatchersInv
  <2>3. Behind' = Behind
    BY <2>1, SameBehind DEF PP!TypeOK
  <2>4. Len(events') = Len(events) + 1
    BY <2>1 DEF PP!TypeOK
  <2> QED
    BY <2>1, <2>2, <2>3, <2>4, SendRoom
<1> QED
  BY <1>1, <1>2, <1>3 DEF P!PublicStep

LEMMA StopRoom ==
    ASSUME PP!TypeOK, LoopInv, RoomInv, UNCHANGED taken, NEW w \in P!Watchers, P!WatcherStop(w)
    PROVE  RoomInv'
<1>1. /\ wpc[w] # "start" /\ wpc' = [wpc EXCEPT ![w] = "done"]
      /\ UNCHANGED <<budget, addrs, cur, todo, events>>
  BY DEF P!WatcherStop, P!Goto, P!network, P!channel
<1>2. Behind' \subseteq Behind
  BY <1>1 DEF PP!TypeOK, Behind
<1> QED
  BY <1>1, <1>2, QuietRoom

(* The account balances at the start, and after every step ...             *)
LEMMA InitRoom == ASSUME Init PROVE RoomInv
<1>1. /\ taken = 0 /\ events = <<>> /\ todo = {}
      /\ budget["change"] = MaxChanges /\ budget["fault"] = MaxFaults
      /\ budget["answer"] = MaxAnswers
      /\ wpc["local"] \in {"start", "done"}
  BY DEF Init, P!Init, D!Init, P!Watchers
<1>2. Behind = {}
  BY <1>1 DEF Behind
<1>3. Load = 0
  <2>1. Cardinality({}) = 0 /\ Len(events) = 0
    BY <1>1, FS_EmptySet
  <2> QED
    BY <1>1, <1>2, <2>1 DEF Load
<1>4. Worth(0) \in Nat
  BY Worths
<1>5. Cause = (MaxChanges - MaxChanges) + Worth(MaxFaults - MaxFaults) + (MaxAnswers - MaxAnswers)
  BY <1>1 DEF Cause
<1>6. Cause = Worth(0)
  <2>1. MaxChanges - MaxChanges = 0 /\ MaxFaults - MaxFaults = 0 /\ MaxAnswers - MaxAnswers = 0
    BY Sizes
  <2> QED
    BY <1>4, <1>5, <2>1
<1> QED
  BY <1>1, <1>3, <1>4, <1>6, Sizes DEF RoomInv

LEMMA StepRoom ==
    ASSUME PP!TypeOK, PP!Chain, LoopInv, RoomInv, [Next]_vars PROVE RoomInv'
<1>1. CASE WatchStep
  <2>1. UNCHANGED taken
    BY <1>1 DEF WatchStep, delivery
  <2>2. ASSUME NEW lost \in SUBSET Interfaces, P!LocalBaseline(lost) PROVE RoomInv'
    BY <2>1, <2>2, BaselineRoom
  <2>3. ASSUME NEW lost \in SUBSET Interfaces, P!LocalTick(lost) PROVE RoomInv'
    BY <2>1, <2>3, TickRoom
  <2>4. ASSUME NEW i \in Interfaces, P!LocalSend(i) PROVE RoomInv'
    BY <2>1, <2>4, LocalSendRoom
  <2>5. CASE P!LocalStep
    BY <2>2, <2>3, <2>4, <2>5 DEF P!LocalStep
  <2> QED
    BY <1>1, <2>1, <2>5, NetworkRoom, PublicRoom, StopRoom DEF WatchStep
<1>2. CASE Accept
  <2>1. /\ events # <<>> /\ events' = Tail(events) /\ taken' = taken + 1
        /\ UNCHANGED <<budget, addrs, wpc, cur, todo>>
    BY <1>2, AcceptFacts DEF Accept, P!Accept, P!network, P!watch
  <2>2. Behind' = Behind
    BY <2>1 DEF Behind
  <2> QED
    BY <2>1, <2>2, ReceiveRoom
<1>3. CASE LoopStep /\ P!Drop
  <2>1. /\ events # <<>> /\ events' = Tail(events) /\ taken' = taken
        /\ UNCHANGED <<budget, addrs, wpc, cur, todo>>
    BY <1>3 DEF LoopStep, P!Drop, P!network, P!watch, delivery
  <2>2. Behind' = Behind
    BY <2>1 DEF Behind
  <2> QED
    BY <2>1, <2>2, ReceiveRoom
<1>4. ASSUME UNCHANGED <<taken, budget, addrs, wpc, cur, todo, events>> PROVE RoomInv'
  <2>1. Behind' = Behind
    BY <1>4 DEF Behind
  <2> QED
    BY <1>4, <2>1, QuietRoom
<1>5. CASE LoopStep /\ ~P!Drop
  <2>1. UNCHANGED <<taken, budget, addrs, wpc, cur, todo, events>>
    BY <1>5 DEF LoopStep, P!CloseEvents, P!RunReturns, P!network, P!watch, P!channel, delivery
  <2> QED
    BY <1>4, <2>1
<1>6. CASE DispatchReturns
  <2>1. UNCHANGED <<taken, budget, addrs, wpc, cur, todo, events>>
    BY <1>6 DEF DispatchReturns, P!DispatchReturns, D!DispatchReturns,
       P!network, P!watch, P!channel
  <2> QED
    BY <1>4, <2>1
<1>7. ASSUME NEW n \in Notifiers, Deliver(n) PROVE RoomInv'
  <2>1. UNCHANGED <<taken, budget, addrs, wpc, cur, todo, events>>
    BY <1>7, DeliverFacts DEF pipeline
  <2> QED
    BY <1>4, <2>1
<1>8. CASE Cancel
  <2>1. UNCHANGED <<taken, budget, addrs, wpc, cur, todo, events>>
    BY <1>8 DEF Cancel, P!Cancel, D!Cancel, P!network, P!watch, P!channel
  <2> QED
    BY <1>4, <2>1
<1>9. CASE UNCHANGED vars
  <2>1. UNCHANGED <<taken, budget, addrs, wpc, cur, todo, events>>
    BY <1>9 DEF vars, pipeline, delivery
  <2> QED
    BY <1>4, <2>1
<1> QED
  BY <1>1, <1>2, <1>3, <1>5, <1>6, <1>7, <1>8, <1>9 DEF Next

(* ... and so the bound on the events is never reached before them.        *)
LEMMA RoomHolds == Spec => []RoomInv
<1>1. Init => RoomInv
  BY InitRoom
<1>2. PP!TypeOK /\ PP!Chain /\ LoopInv /\ RoomInv /\ [Next]_vars => RoomInv'
  BY StepRoom
<1> QED
  BY <1>1, <1>2, PipelineHolds, LoopHolds, PTL DEF Spec

----------------------------------------------------------------------------
(* The deliver goroutines do what Delivery says they may: the changes it   *)
(* takes from nowhere are what the watchers put into the channel.          *)

Changes == Len(story) + Cardinality(Acceptable)

LEMMA ChangesType ==
    ASSUME PP!TypeOK, LoopInv, StoryInv
    PROVE  /\ Cardinality(Acceptable) \in Nat /\ Cardinality(Acceptable) <= Len(events)
           /\ Changes = taken + Cardinality(Acceptable) /\ Changes \in Nat
           /\ taken \in Nat /\ Len(events) \in Nat
<1>1. events \in Seq(PP!Event) /\ Len(events) \in Nat
  BY LenProperties DEF PP!TypeOK
<1>2. taken \in Nat /\ Len(story) = taken
  BY Sizes DEF LoopInv, StoryInv
<1> QED
  BY <1>1, <1>2, AcceptableHere, AcceptableCount DEF Changes

(* A send: an event more, or none that counts.                             *)
LEMMA SendForDelivery ==
    ASSUME PP!TypeOK, PP!TypeOK', LoopInv, RoomInv, StoryInv,
           UNCHANGED <<delivery, story, cancelled, changedKeys>>,
           NEW k \in todo, NEW e \in PP!Event, events' = Append(events, e)
    PROVE  [D!Next]_D!vars
<1>1. /\ Cardinality(Acceptable) \in Nat /\ Cardinality(Acceptable) <= Len(events)
      /\ Changes = taken + Cardinality(Acceptable)
      /\ taken \in Nat /\ Len(events) \in Nat
  BY ChangesType
<1>2. /\ Acceptable = AcceptableIn(events, changedKeys)
      /\ Acceptable' = AcceptableIn(Append(events, e), changedKeys)
  BY AcceptableHere, AcceptableThen
<1>3. Changes' \in {Changes, Changes + 1}
  <2>1. events \in Seq(PP!Event)
    BY DEF PP!TypeOK
  <2>2. Cardinality(Acceptable') \in {Cardinality(Acceptable), Cardinality(Acceptable) + 1}
    BY <1>2, <2>1, AcceptableAppend
  <2>3. Changes' = Len(story) + Cardinality(Acceptable') /\ Len(story) = taken
    BY DEF Changes, StoryInv
  <2> QED
    BY <1>1, <2>2, <2>3 DEF Changes
<1>4. Changes < MaxEvents
  <2>1. Cardinality(todo) >= 1
    <3>1. todo \in SUBSET PP!Keys /\ todo \ {k} \in SUBSET PP!Keys
      BY RoomTypes
    <3>2. Cardinality(todo \ {k}) = Cardinality(todo) - 1 /\ Cardinality(todo \ {k}) \in Nat
      BY <3>1, OneLess, PartOfKeys
    <3> QED
      BY <3>2, RoomTypes
  <2>2. taken + Len(events) + Cardinality(todo) + Cardinality(Behind) <= MaxEvents
    BY LoadIsBounded DEF Load
  <2>3. Cardinality(todo) \in Nat /\ Cardinality(Behind) \in Nat /\ MaxEvents \in Nat
    BY RoomTypes, Sizes
  <2> QED
    BY <1>1, <2>1, <2>2, <2>3
<1>5. UNCHANGED <<notifiers, taken, phase, job, status, inbox, cancelled>>
  BY DEF delivery
<1>6. CASE Changes' = Changes
  BY <1>5, <1>6 DEF D!vars, Changes
<1>7. CASE Changes' = Changes + 1
  <2>1. D!AddressChanges
    BY <1>4, <1>5, <1>7 DEF D!AddressChanges, Changes
  <2> QED
    BY <2>1 DEF D!Next
<1> QED
  BY <1>3, <1>6, <1>7

(* A drop: the event was none that counted.                                *)
LEMMA DropForDelivery ==
    ASSUME PP!TypeOK, PP!TypeOK', PP!Chain, UNCHANGED <<delivery, story>>, P!Drop
    PROVE  UNCHANGED D!vars
<1> DEFINE e == Head(events)
<1>1. /\ events # <<>> /\ last[e.key] = e.new /\ events' = Tail(events)
      /\ UNCHANGED <<cancelled, changedKeys>>
  BY DEF P!Drop, P!Changed, P!engine
<1>2. events \in Seq(PP!Event) /\ PP!Linked(events) /\ e \in PP!Event
  BY <1>1, HeadTailProperties DEF PP!TypeOK, PP!Chain
<1>3. e.key \in PP!Keys /\ e.old # e.new /\ (e.key \in changedKeys => e.old = last[e.key])
  <2>1. 1 \in PP!Slots(events) /\ events[1] = e
    BY <1>1, <1>2, HeadTailProperties DEF PP!Slots
  <2>2. PP!FirstOf(events, 1)
    BY DEF PP!FirstOf, PP!Slots
  <2> QED
    BY <1>2, <2>1, <2>2 DEF PP!Event, PP!Linked, PP!Chain, PP!StartsAt
<1>4. e.key \notin changedKeys /\ e.new = NoAddrs
  BY <1>1, <1>3 DEF PP!Chain, PP!EngineInv
<1>5. Cardinality(Acceptable') = Cardinality(Acceptable)
  <2>1. /\ Acceptable = AcceptableIn(events, changedKeys)
        /\ Acceptable' = AcceptableIn(Tail(events), changedKeys)
    BY <1>1, AcceptableHere, AcceptableThen
  <2> QED
    BY <1>1, <1>2, <1>4, <2>1, AcceptableTail
<1> QED
  BY <1>1, <1>5 DEF D!vars, delivery

LEMMA StepOfDelivery ==
    ASSUME PP!TypeOK, PP!TypeOK', PP!Chain, LoopInv, RoomInv, StoryInv, [Next]_vars
    PROVE  [D!Next]_D!vars
<1>0. ASSUME UNCHANGED <<delivery, story, cancelled, changedKeys, events>>
      PROVE  UNCHANGED D!vars
  <2>1. Acceptable' = Acceptable
    BY <1>0, AcceptableHere, AcceptableThen
  <2> QED
    BY <1>0, <2>1 DEF D!vars, delivery
<1>1. CASE WatchStep
  <2>0. UNCHANGED <<delivery, story, cancelled, changedKeys>>
    BY <1>1 DEF WatchStep, P!NetworkChange, P!LocalStep, P!LocalBaseline, P!LocalTick,
       P!LocalSend, P!PublicStep, P!PublicBaseline, P!PublicTick, P!PublicSend,
       P!WatcherStop, P!engine
  <2>1. ASSUME NEW i \in Interfaces, P!LocalSend(i) PROVE [D!Next]_D!vars
    <3>1. i \in todo /\ events' = Append(events, P!EventOf(i))
      BY <2>1 DEF P!LocalSend, P!NextInDiff, P!Put
    <3>2. P!EventOf(i) \in PP!Event
      BY DEF P!EventOf, PP!Event, PP!TypeOK, PP!Keys
    <3> QED
      BY <2>0, <3>1, <3>2, SendForDelivery
  <2>2. CASE P!PublicSend
    <3>1. wpc["public"] = "sending" /\ events' = Append(events, P!EventOf(Public))
      BY <2>2 DEF P!PublicSend, P!Put
    <3>2. Public \in todo
      BY <3>1 DEF PP!Chain, PP!WatchersInv
    <3>3. P!EventOf(Public) \in PP!Event
      BY DEF P!EventOf, PP!Event, PP!TypeOK, PP!Keys
    <3> QED
      BY <2>0, <3>1, <3>2, <3>3, SendForDelivery
  <2>3. CASE UNCHANGED events
    BY <1>0, <2>0, <2>3
  <2> QED
    BY <1>1, <2>1, <2>2, <2>3 DEF WatchStep, P!NetworkChange, P!LocalStep, P!LocalBaseline,
       P!LocalTick, P!PublicStep, P!PublicBaseline, P!PublicTick, P!WatcherStop, P!channel
<1>2. CASE LoopStep
  <2>1. CASE P!Drop
    BY <1>2, <2>1, DropForDelivery DEF LoopStep
  <2>2. CASE P!CloseEvents \/ P!RunReturns
    BY <1>0, <1>2, <2>2 DEF LoopStep, P!CloseEvents, P!RunReturns, P!engine, P!channel
  <2> QED
    BY <1>2, <2>1, <2>2 DEF LoopStep
<1>3. CASE Accept
  BY <1>3, AcceptFacts DEF Accept, D!Next
<1>4. CASE DispatchReturns
  <2>1. D!DispatchReturns(taken) /\ epc = "dispatch"
    BY <1>4 DEF DispatchReturns, P!DispatchReturns
  <2>2. taken \in D!Dispatches
    BY <2>1, Dispatching DEF LoopInv, D!Dispatches
  <2> QED
    BY <2>1, <2>2 DEF D!Next
<1>5. ASSUME NEW n \in Notifiers, Deliver(n) PROVE [D!Next]_D!vars
  BY <1>5 DEF Deliver, D!Next, D!Dispatches
<1>6. CASE Cancel
  BY <1>6 DEF Cancel, D!Next
<1>7. CASE UNCHANGED vars
  BY <1>0, <1>7 DEF vars, pipeline
<1> QED
  BY <1>1, <1>2, <1>3, <1>4, <1>5, <1>6, <1>7 DEF Next

(* Whatever the watchers, the channel and the loop do, the deliver         *)
(* goroutines do what Delivery says they may (DeliveryImplemented without  *)
(* its fairness): every event that counts is a change Delivery is told of  *)
(* when it enters the channel, none is one too many, and it is taken once, *)
(* in its turn; coalescing and dropping never take one back.               *)
THEOREM EndToEndImplementsDelivery == Spec => D!Spec
<1>1. Init => D!Init
  BY DEF Init
<1>2. PP!TypeOK /\ PP!TypeOK' /\ PP!Chain /\ LoopInv /\ RoomInv /\ StoryInv /\ [Next]_vars
        => [D!Next]_D!vars
  BY StepOfDelivery
<1> QED
  BY <1>1, <1>2, PipelineHolds, LoopHolds, RoomHolds, StoryHolds, PTL DEF Spec, D!Spec


----------------------------------------------------------------------------
(* Delivery's part in Accept holds the loop up nowhere.                    *)

(* What accepting an event takes in the code: the loop's own step, and the *)
(* goroutines of a dispatch started.                                       *)
PlainAccept ==
    /\ P!Accept
    /\ story' = Append(story, Head(events))
    /\ taken' = taken + 1
    /\ D!Begin(taken + 1)
    /\ UNCHANGED <<notifiers, status, inbox>>

(* When the loop has an event that it does not drop, Delivery has a change *)
(* for it to take, the dispatch before has ended, the next has not begun,  *)
(* and there is room for it below the bound.                               *)
LoopIsFree ==
    epc = "recv" /\ events # <<>> /\ P!Changed(Head(events))
        => /\ taken < MaxEvents /\ taken + 1 <= Changes
           /\ taken > 0 => phase[taken] = "after"
           /\ phase[taken + 1] = "before"

(* An event that is not dropped counts, and once taken no longer.          *)
LEMMA HeadCounts ==
    ASSUME PP!TypeOK, PP!Chain, events # <<>>, P!Changed(Head(events)),
           NEW known, known = changedKeys \cup {Head(events).key}
    PROVE  /\ Cardinality(AcceptableIn(Tail(events), known)) = Cardinality(Acceptable) - 1
           /\ Cardinality(Acceptable) > 0
<1> DEFINE e == Head(events)
<1>1. events \in Seq(PP!Event) /\ PP!Linked(events) /\ e \in PP!Event
  BY HeadTailProperties DEF PP!TypeOK, PP!Chain
<1>2. e.key \in changedKeys \/ e.new # NoAddrs
  BY <1>1 DEF PP!Event, PP!Chain, PP!EngineInv, P!Changed
<1>3. Acceptable = AcceptableIn(events, changedKeys)
  BY AcceptableHere
<1>4. Cardinality(AcceptableIn(Tail(events), known)) = Cardinality(Acceptable) - 1
  BY <1>1, <1>2, <1>3, AcceptableTail
<1>5. Tail(events) \in Seq(PP!Event)
  BY <1>1, HeadTailProperties
<1>6. Cardinality(AcceptableIn(Tail(events), known)) \in Nat /\ Cardinality(Acceptable) \in Nat
  BY <1>1, <1>3, <1>5, AcceptableCount
<1> QED
  BY <1>4, <1>6

LEMMA FreeHere ==
    ASSUME PP!TypeOK, PP!Chain, LoopInv, RoomInv, StoryInv
    PROVE  LoopIsFree
<1> SUFFICES ASSUME epc = "recv", events # <<>>, P!Changed(Head(events))
             PROVE  /\ taken < MaxEvents /\ taken + 1 <= Changes
                    /\ taken > 0 => phase[taken] = "after"
                    /\ phase[taken + 1] = "before"
  BY DEF LoopIsFree
<1>1. /\ Cardinality(Acceptable) \in Nat /\ Cardinality(Acceptable) <= Len(events)
      /\ Changes = taken + Cardinality(Acceptable)
      /\ taken \in Nat /\ Len(events) \in Nat
  BY ChangesType
<1>2. Cardinality(Acceptable) > 0
  BY HeadCounts
<1>3. taken < MaxEvents
  <2>1. taken + Len(events) + Cardinality(todo) + Cardinality(Behind) <= MaxEvents
    BY LoadIsBounded DEF Load
  <2>2. Cardinality(todo) \in Nat /\ Cardinality(Behind) \in Nat /\ MaxEvents \in Nat
    BY RoomTypes, Sizes
  <2> QED
    BY <1>1, <1>2, <2>1, <2>2
<1>4. (taken > 0 => phase[taken] = "after") /\ phase[taken + 1] = "before"
  BY <1>1, <1>3, Dispatching DEF LoopInv, Phase
<1> QED
  BY <1>1, <1>2, <1>3, <1>4

(* So Accept, with Delivery's guards and the bound, is what the code does. *)
LEMMA AcceptIsPlain ==
    ASSUME PP!TypeOK, PP!TypeOK', PP!Chain, LoopInv, RoomInv, StoryInv
    PROVE  Accept <=> PlainAccept
<1>1. Accept => PlainAccept
  BY DEF Accept, PlainAccept, D!LoopTakes
<1>2. ASSUME PlainAccept PROVE Accept
  <2>1. /\ epc = "recv" /\ events # <<>> /\ P!Changed(Head(events))
        /\ events' = Tail(events) /\ changedKeys' = changedKeys \cup {Head(events).key}
        /\ cancelled' = cancelled
    BY <1>2 DEF PlainAccept, P!Accept
  <2>2. /\ taken < MaxEvents /\ taken + 1 <= Changes
        /\ taken > 0 => phase[taken] = "after"
    BY <2>1, FreeHere DEF LoopIsFree
  <2>3. Cardinality(Acceptable') = Cardinality(Acceptable) - 1
    BY <2>1, HeadCounts, AcceptableThen
  <2>4. Len(story') = Len(story) + 1
    <3>1. Head(events) \in PP!Event
      BY <2>1, HeadTailProperties DEF PP!TypeOK
    <3> QED
      BY <1>2, <3>1 DEF PlainAccept, StoryInv
  <2>5. Changes' = Changes
    BY <2>3, <2>4, ChangesType DEF Changes, StoryInv
  <2> QED
    BY <1>2, <2>1, <2>2, <2>5 DEF PlainAccept, Accept, D!LoopTakes, Changes
<1> QED
  BY <1>1, <1>2

(* The composition never holds up an event that the engine alone would     *)
(* accept: nothing Delivery asks for, and no bound, is in the loop's way.  *)
THEOREM DeliveryNeverBlocks == Spec => []LoopIsFree
<1>1. PP!TypeOK /\ PP!Chain /\ LoopInv /\ RoomInv /\ StoryInv => LoopIsFree
  BY FreeHere
<1> QED
  BY <1>1, PipelineHolds, LoopHolds, RoomHolds, StoryHolds, PTL


----------------------------------------------------------------------------
(* So what Delivery guarantees holds here, of the events the watchers send *)
(* (for every notifier, not only the healthy ones).                        *)

LEMMA DeliveryAgain == Spec => DP!Spec
<1>1. D!Init => DP!Init
  BY Zenon DEF D!Init, DP!Init, D!Dispatches, DP!Dispatches, D!Events, DP!Events, D!NoJob, DP!NoJob
<1>2. [D!Next]_D!vars => [DP!Next]_DP!vars
  <2>1. D!Events = DP!Events /\ D!Dispatches = DP!Dispatches
    BY DEF D!Events, DP!Events, D!Dispatches, DP!Dispatches
  <2>2. \A v, n : /\ D!JobStep(v, n) => DP!JobStep(v, n)
                  /\ D!LoopTakes(v) => DP!LoopTakes(v)
                  /\ D!DispatchReturns(v) => DP!DispatchReturns(v)
    BY SameDelivery
  <2>3. /\ D!AddressChanges => DP!AddressChanges
        /\ D!Cancel => DP!Cancel
        /\ \A ns : D!SetNotifiers(ns) => DP!SetNotifiers(ns)
    BY DEF D!AddressChanges, DP!AddressChanges, D!Cancel, DP!Cancel,
       D!SetNotifiers, DP!SetNotifiers
  <2>4. ~D!ReadAddresses /\ ~D!Announce /\ ~D!SkipAnnounce /\ ~D!TestAll
    BY DEF D!ReadAddresses, D!Announce, D!SkipAnnounce, D!TestAll
  <2> QED
    <3> SUFFICES ASSUME [D!Next]_D!vars PROVE [DP!Next]_DP!vars
      OBVIOUS
    <3>1. CASE UNCHANGED D!vars
      BY <3>1 DEF D!vars, DP!vars
    <3>2. CASE D!AddressChanges \/ D!Cancel
      BY <2>3, <3>2 DEF DP!Next
    <3>3. ASSUME NEW ns \in (SUBSET Notifiers) \ {{}}, D!SetNotifiers(ns) PROVE DP!Next
      BY <2>3, <3>3 DEF DP!Next
    <3>4. ASSUME NEW v \in D!Events, D!LoopTakes(v) PROVE DP!Next
      BY <2>1, <2>2, <3>4 DEF DP!Next
    <3>5. ASSUME NEW d \in D!Dispatches, D!DispatchReturns(d) PROVE DP!Next
      BY <2>1, <2>2, <3>5 DEF DP!Next
    <3>6. ASSUME NEW d \in D!Dispatches, NEW n \in Notifiers, D!JobStep(d, n) PROVE DP!Next
      BY <2>1, <2>2, <3>6 DEF DP!Next
    <3> QED
      BY <2>4, <3>1, <3>2, <3>3, <3>4, <3>5, <3>6 DEF D!Next
<1>3. D!Spec => DP!Spec
  BY <1>1, <1>2, PTL DEF D!Spec, DP!Spec
<1> QED
  BY <1>3, EndToEndImplementsDelivery, PTL

(* No subscriber of any notifier gets an event more than MaxRetries + 1    *)
(* times, nor one after a later one, nor again after the notifier accepted *)
(* it; and /status has the outcome of the last dispatch, as Delivery says. *)
THEOREM DeliveryCarriesOver ==
    Spec => /\ []DP!BoundedCopies
            /\ []DP!ChangesArriveInOrder
            /\ DP!NoCopyAfterSuccess
            /\ []DP!StatusTellsTheOutcome
<1>1. DP!DeliveryAssumption /\ EndToEndAssumption
  BY EndToEndAssumption, Assumptions
<1>2. /\ DP!Spec => []DP!BoundedCopies
      /\ DP!Spec => []DP!ChangesArriveInOrder
      /\ DP!Spec => DP!NoCopyAfterSuccess
      /\ DP!Spec => []DP!StatusTellsTheOutcome
  BY <1>1, DP!CopiesAreBounded, DP!ChangesInOrder, DP!NothingAfterSuccess, DP!StatusTells
<1> QED
  BY <1>2, DeliveryAgain, PTL


=============================================================================
