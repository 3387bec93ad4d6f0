--------------------------- MODULE DeliveryProofs ---------------------------
(***************************************************************************)
(* Theorems about Delivery, for every set of notifiers and any number of   *)
(* changes, retries and reloads.                                           *)
(***************************************************************************)
EXTENDS Delivery, SequenceTheorems, FiniteSetTheorems, TLAPS

Names == {Name[n] : n \in Notifiers}

USE DEF Dispatches, Events

(* The part of TypeOK that the steps of the goroutines rest on.            *)
JobsTyped ==
    /\ phase \in [Dispatches -> {"before", "waiting", "after"}]
    /\ job \in [Dispatches -> [Notifiers -> Jobs]]
    /\ status \in [Names -> {"none", "ok", "err"}]
    /\ inbox \in [Notifiers -> Seq(Dispatches)]
    /\ cancelled \in BOOLEAN

LEMMA TypedJobs == ASSUME TypeOK PROVE JobsTyped
BY DEF TypeOK, JobsTyped, Names

----------------------------------------------------------------------------
(* Type correctness.  The steps of a job are stated as what they do to it. *)

LEMMA BeginType ==
    ASSUME DeliveryAssumption, JobsTyped, NEW d \in Dispatches, Begin(d)
    PROVE  /\ phase' \in [Dispatches -> {"before", "waiting", "after"}]
           /\ job' \in [Dispatches -> [Notifiers -> Jobs]]
<1>1. NoJob \in Jobs /\ Fresh \in Jobs
  BY DEF NoJob, Fresh, Jobs, DeliveryAssumption
<1>2. [n \in Notifiers |-> IF n \in notifiers THEN Fresh ELSE NoJob] \in [Notifiers -> Jobs]
  BY <1>1
<1> QED
  BY <1>2 DEF Begin, JobsTyped

(* A step that rewrites one job, and nothing of the others.                *)
Rewrites(d, n, j) == job' = [job EXCEPT ![d] = [@ EXCEPT ![n] = j]]

LEMMA RewriteType ==
    ASSUME JobsTyped, NEW d \in Dispatches, NEW n \in Notifiers, NEW j \in Jobs, Rewrites(d, n, j)
    PROVE  /\ job' \in [Dispatches -> [Notifiers -> Jobs]]
           /\ job'[d][n] = j
           /\ \A e \in Dispatches, m \in Notifiers :
                  e # d \/ m # n => job'[e][m] = job[e][m]
<1>1. [job[d] EXCEPT ![n] = j] \in [Notifiers -> Jobs]
  BY DEF JobsTyped
<1>2. job' = [job EXCEPT ![d] = [job[d] EXCEPT ![n] = j]]
  BY DEF Rewrites
<1> QED
  BY <1>1, <1>2 DEF JobsTyped

(* The state of a job after deliver has looked at the outcome.             *)
LEMMA NextAttemptFacts ==
    ASSUME DeliveryAssumption, cancelled \in BOOLEAN, NEW j \in Jobs
    PROVE  /\ NextAttempt(j) \in Jobs
           /\ NextAttempt(j).ok = j.ok /\ NextAttempt(j).dead = j.dead
           /\ \/ /\ j.ok \/ cancelled \/ j.attempt = MaxRetries
                 /\ NextAttempt(j).pc = "finished" /\ NextAttempt(j).attempt = j.attempt
              \/ /\ ~j.ok /\ ~cancelled
                 /\ NextAttempt(j).pc = "backoff" /\ NextAttempt(j).attempt = j.attempt + 1
<1>1. CASE j.ok \/ cancelled \/ j.attempt = MaxRetries
  <2>1. NextAttempt(j) = [j EXCEPT !.pc = "finished"]
    BY <1>1 DEF NextAttempt
  <2> QED
    BY <1>1, <2>1 DEF Jobs
<1>2. CASE ~(j.ok \/ cancelled \/ j.attempt = MaxRetries)
  <2>1. NextAttempt(j) = [j EXCEPT !.pc = "backoff", !.attempt = @ + 1]
    BY <1>2 DEF NextAttempt
  <2>2. j.attempt + 1 \in 0 .. MaxRetries
    BY <1>2 DEF Jobs, DeliveryAssumption
  <2> QED
    BY <1>2, <2>1, <2>2 DEF Jobs
<1> QED
  BY <1>1, <1>2

(* The four steps of a job, as seen in job[d][n].                          *)
Started(d, n) ==
    /\ job[d][n].pc \in {"ready", "backoff"} /\ job'[d][n].pc = "calling"
    /\ job'[d][n].ok = job[d][n].ok /\ job'[d][n].attempt = job[d][n].attempt
    /\ job'[d][n].dead = (cancelled /\ d # Test)
    /\ inbox' = inbox

Ended(d, n) ==
    /\ job[d][n].pc = "calling"
    /\ job'[d][n].pc = (IF d = Test THEN "finished" ELSE "recording")
    /\ job'[d][n].dead = job[d][n].dead /\ job'[d][n].attempt = job[d][n].attempt
    /\ inbox' \in {inbox, [inbox EXCEPT ![n] = Append(@, d)]}

Recorded(d, n) ==
    /\ job[d][n].pc = "recording"
    /\ job'[d][n] = NextAttempt(job[d][n])
    /\ inbox' = inbox

Stopped(d, n) ==
    /\ job[d][n].pc = "backoff" /\ cancelled /\ job'[d][n].pc = "finished"
    /\ job'[d][n].ok = job[d][n].ok /\ job'[d][n].dead = job[d][n].dead
    /\ job'[d][n].attempt = job[d][n].attempt
    /\ inbox' = inbox

LEMMA JobSteps ==
    ASSUME DeliveryAssumption, JobsTyped, NEW d \in Dispatches, NEW n \in Notifiers, JobStep(d, n)
    PROVE  /\ job' \in [Dispatches -> [Notifiers -> Jobs]]
           /\ \A e \in Dispatches, m \in Notifiers :
                  e # d \/ m # n => job'[e][m] = job[e][m]
           /\ Started(d, n) \/ Ended(d, n) \/ Recorded(d, n) \/ Stopped(d, n)
<1> DEFINE i == job[d][n]
<1>0. i \in Jobs /\ cancelled \in BOOLEAN
  BY DEF JobsTyped
<1>1. CASE StartCall(d, n)
  <2> DEFINE j == [i EXCEPT !.pc = "calling", !.dead = cancelled /\ d # Test]
  <2>1. Rewrites(d, n, j)
    BY <1>1 DEF StartCall, Rewrites
  <2>2. /\ j \in Jobs /\ j.pc = "calling" /\ j.dead = (cancelled /\ d # Test)
        /\ j.ok = i.ok /\ j.attempt = i.attempt
    BY <1>0 DEF Jobs
  <2>3. i.pc \in {"ready", "backoff"} /\ inbox' = inbox
    BY <1>1 DEF StartCall
  <2> HIDE DEF j
  <2> QED
    BY <2>1, <2>2, <2>3, RewriteType DEF Started
<1>2. CASE \E outcome \in {"ok", "refused", "lost"} : CallEnds(d, n, outcome)
  <2>0. PICK outcome \in {"ok", "refused", "lost"} : CallEnds(d, n, outcome)
    BY <1>2
  <2> DEFINE j == [i EXCEPT !.ok = (outcome = "ok"),
                            !.pc = IF d = Test THEN "finished" ELSE "recording"]
  <2>1. Rewrites(d, n, j)
    BY <2>0 DEF CallEnds, Rewrites
  <2>2. /\ j \in Jobs /\ j.pc = (IF d = Test THEN "finished" ELSE "recording")
        /\ j.dead = i.dead /\ j.attempt = i.attempt
    BY <1>0 DEF Jobs
  <2>3. i.pc = "calling" /\ inbox' \in {inbox, [inbox EXCEPT ![n] = Append(@, d)]}
    BY <2>0 DEF CallEnds
  <2> HIDE DEF j
  <2> QED
    BY <2>1, <2>2, <2>3, RewriteType DEF Ended
<1>3. CASE Record(d, n)
  <2>1. Rewrites(d, n, NextAttempt(i)) /\ i.pc = "recording" /\ inbox' = inbox
    BY <1>3 DEF Record, Rewrites
  <2>2. NextAttempt(i) \in Jobs
    BY <1>0, NextAttemptFacts
  <2> QED
    BY <2>1, <2>2, RewriteType DEF Recorded
<1>4. CASE StopWaiting(d, n)
  <2> DEFINE j == [i EXCEPT !.pc = "finished"]
  <2>1. Rewrites(d, n, j)
    BY <1>4 DEF StopWaiting, Rewrites
  <2>2. /\ j \in Jobs /\ j.pc = "finished" /\ j.dead = i.dead
        /\ j.ok = i.ok /\ j.attempt = i.attempt
    BY <1>0 DEF Jobs
  <2>3. i.pc = "backoff" /\ cancelled /\ inbox' = inbox
    BY <1>4 DEF StopWaiting
  <2> HIDE DEF j
  <2> QED
    BY <2>1, <2>2, <2>3, RewriteType DEF Stopped
<1> QED
  BY <1>1, <1>2, <1>3, <1>4 DEF JobStep

(* What a job's step does to the rest of the state.                        *)
LEMMA JobFrame ==
    ASSUME JobsTyped, NEW d \in Dispatches, NEW n \in Notifiers, JobStep(d, n)
    PROVE  /\ UNCHANGED <<changes, notifiers, swaps, taken, phase, content, cancelled>>
           /\ status' \in [Names -> {"none", "ok", "err"}]
           /\ \/ inbox' = inbox
              \/ job[d][n].pc = "calling" /\ inbox' = [inbox EXCEPT ![n] = Append(@, d)]
           /\ inbox' \in [Notifiers -> Seq(Dispatches)]
<1>1. status \in [Names -> {"none", "ok", "err"}] /\ inbox \in [Notifiers -> Seq(Dispatches)]
      /\ Append(inbox[n], d) \in Seq(Dispatches)
  BY AppendProperties DEF JobsTyped
<1>2. CASE StartCall(d, n) \/ StopWaiting(d, n)
  BY <1>1, <1>2 DEF StartCall, StopWaiting
<1>3. CASE Record(d, n)
  BY <1>1, <1>3 DEF Record, Names
<1>4. CASE \E outcome \in {"ok", "refused", "lost"} : CallEnds(d, n, outcome)
  BY <1>1, <1>4 DEF CallEnds
<1> QED
  BY <1>2, <1>3, <1>4 DEF JobStep

(* A call begun in time reaches a healthy notifier, which says so, unless  *)
(* the context is done by its end; one begun too late reaches nobody.      *)
LEMMA HealthyCalls ==
    ASSUME DeliveryAssumption, JobsTyped, NEW d \in Dispatches, NEW n \in Notifiers,
           JobStep(d, n), job[d][n].pc = "calling"
    PROVE  /\ inbox' # inbox => ~job[d][n].dead
           /\ n \in Healthy /\ ~job[d][n].dead /\ ~cancelled =>
                  job'[d][n].ok /\ inbox' = [inbox EXCEPT ![n] = Append(@, d)]
<1> DEFINE i == job[d][n]
<1>1. PICK outcome \in {"ok", "refused", "lost"} : CallEnds(d, n, outcome)
  BY DEF JobStep, StartCall, Record, StopWaiting
<1>2. i.dead => outcome = "refused" /\ inbox' = inbox
  BY <1>1 DEF CallEnds, Outcomes
<1>3. ASSUME n \in Healthy, ~i.dead, ~cancelled
      PROVE  i.pc = "calling" /\ outcome = "ok" /\ inbox' = [inbox EXCEPT ![n] = Append(@, d)]
  BY <1>1, <1>3 DEF CallEnds, Outcomes
<1>4. ASSUME outcome = "ok" PROVE job'[d][n].ok
  <2> DEFINE j == [i EXCEPT !.ok = (outcome = "ok"),
                            !.pc = IF d = Test THEN "finished" ELSE "recording"]
  <2>1. Rewrites(d, n, j)
    BY <1>1 DEF CallEnds, Rewrites
  <2>2. i \in Jobs
    BY DEF JobsTyped
  <2>3. j \in Jobs /\ j.ok = (outcome = "ok")
    BY <2>2 DEF Jobs
  <2>4. j.ok
    BY <1>4, <2>3
  <2> HIDE DEF j
  <2> QED
    BY <2>1, <2>3, <2>4, RewriteType
<1> QED
  BY <1>2, <1>3, <1>4

LEMMA InitTyped == ASSUME DeliveryAssumption, Init PROVE TypeOK
<1>1. NoJob \in Jobs
  BY DEF NoJob, Jobs, DeliveryAssumption
<1>2. job \in [Dispatches -> [Notifiers -> Jobs]]
  BY <1>1 DEF Init
<1>3. inbox \in [Notifiers -> Seq(Dispatches)]
  BY DEF Init
<1>4. 0 \in 0 .. MaxEvents /\ MaxSwaps \in 0 .. MaxSwaps
  BY DEF DeliveryAssumption
<1> QED
  BY <1>2, <1>3, <1>4 DEF Init, TypeOK

LEMMA StepTyped ==
    ASSUME DeliveryAssumption, TypeOK, [Next]_vars PROVE TypeOK'
<1>1. ASSUME AddressChanges PROVE TypeOK'
  BY <1>1 DEF AddressChanges, TypeOK, DeliveryAssumption
<1>2. ASSUME NEW ns \in (SUBSET Notifiers) \ {{}}, SetNotifiers(ns) PROVE TypeOK'
  <2>1. swaps' \in 0 .. MaxSwaps
    BY <1>2 DEF SetNotifiers, TypeOK, DeliveryAssumption
  <2> QED
    BY <1>2, <2>1 DEF SetNotifiers, TypeOK
<1>3. ASSUME Cancel PROVE TypeOK'
  BY <1>3 DEF Cancel, TypeOK
<1>4. ASSUME NEW v \in Events, LoopTakes(v) PROVE TypeOK'
  BY <1>4, BeginType, TypedJobs DEF LoopTakes, TypeOK, DeliveryAssumption
<1>5. ASSUME ReadAddresses PROVE TypeOK'
  BY <1>5 DEF ReadAddresses, TypeOK
<1>6. ASSUME Announce \/ TestAll PROVE TypeOK'
  BY <1>6, BeginType, TypedJobs DEF Announce, TestAll, TypeOK
<1>7. ASSUME SkipAnnounce PROVE TypeOK'
  BY <1>7 DEF SkipAnnounce, TypeOK
<1>8. ASSUME NEW d \in Dispatches, DispatchReturns(d) PROVE TypeOK'
  BY <1>8 DEF DispatchReturns, TypeOK
<1>9. ASSUME NEW d \in Dispatches, NEW n \in Notifiers, JobStep(d, n) PROVE TypeOK'
  <2>1. job' \in [Dispatches -> [Notifiers -> Jobs]]
    BY <1>9, JobSteps, TypedJobs
  <2> QED
    BY <1>9, <2>1, JobFrame, TypedJobs DEF TypeOK, Names
<1>10. ASSUME UNCHANGED vars PROVE TypeOK'
  BY <1>10 DEF vars, TypeOK
<1> QED
  BY <1>1, <1>2, <1>3, <1>4, <1>5, <1>6, <1>7, <1>8, <1>9, <1>10 DEF Next

(* Every variable keeps its type; no job makes more than maxRetries        *)
(* retries.                                                                *)
THEOREM TypeCorrect == Spec => []TypeOK
<1>1. Init => TypeOK
  BY InitTyped, DeliveryAssumption
<1>2. TypeOK /\ [Next]_vars => TypeOK'
  BY StepTyped, DeliveryAssumption
<1> QED
  BY <1>1, <1>2, PTL DEF Spec

----------------------------------------------------------------------------
(* What is true of one job at a time.  A step leaves all jobs alone, makes *)
(* the fresh ones of a dispatch that begins, or is a step of one job.      *)

Quiet == job' = job /\ inbox' = inbox /\ (cancelled => cancelled')

Begins(d) ==
    /\ phase[d] = "before"
    /\ inbox' = inbox /\ cancelled' = cancelled
    /\ \A n \in Notifiers : job'[d][n] \in {Fresh, NoJob}
    /\ \A e \in Dispatches, n \in Notifiers : e # d => job'[e][n] = job[e][n]

LEMMA BeginBegins ==
    ASSUME TypeOK, NEW d \in Dispatches, Begin(d), inbox' = inbox, cancelled' = cancelled
    PROVE  Begins(d)
<1> DEFINE f == [n \in Notifiers |-> IF n \in notifiers THEN Fresh ELSE NoJob]
<1>1. job' = [job EXCEPT ![d] = f] /\ phase[d] = "before"
  BY DEF Begin
<1>2. \A n \in Notifiers : f[n] \in {Fresh, NoJob}
  OBVIOUS
<1> HIDE DEF f
<1> QED
  BY <1>1, <1>2 DEF Begins, TypeOK

LEMMA StepKinds ==
    ASSUME DeliveryAssumption, TypeOK, [Next]_vars
    PROVE  \/ Quiet
           \/ \E d \in Dispatches : Begins(d)
           \/ \E d \in Dispatches, n \in Notifiers : JobStep(d, n)
<1>1. ASSUME NEW ns \in (SUBSET Notifiers) \ {{}}, SetNotifiers(ns) PROVE Quiet
  BY <1>1 DEF SetNotifiers, Quiet
<1>2. ASSUME NEW d \in Dispatches, DispatchReturns(d) PROVE Quiet
  BY <1>2 DEF DispatchReturns, Quiet
<1>3. CASE AddressChanges \/ Cancel \/ ReadAddresses \/ SkipAnnounce \/ UNCHANGED vars
  BY <1>3 DEF AddressChanges, Cancel, ReadAddresses, SkipAnnounce, vars, Quiet
<1>4. ASSUME NEW v \in Events, LoopTakes(v) PROVE Begins(v)
  BY <1>4, BeginBegins DEF LoopTakes
<1>5. ASSUME Announce PROVE Startup \in Dispatches /\ Begins(Startup)
  BY <1>5, BeginBegins DEF Announce
<1>6. ASSUME TestAll PROVE Test \in Dispatches /\ Begins(Test)
  BY <1>6, BeginBegins DEF TestAll
<1> QED
  BY <1>1, <1>2, <1>3, <1>4, <1>5, <1>6 DEF Next

(* When deliver stops, when a call can have begun under a done context,    *)
(* and when the last call can have succeeded.                              *)
DueInv(d, n) ==
    d # Test /\ job[d][n].pc = "finished" /\ ~job[d][n].ok
        => cancelled \/ job[d][n].attempt = MaxRetries

DeadInv(d, n) ==
    job[d][n].dead => cancelled /\ job[d][n].pc \in {"calling", "recording", "finished"}

OkInv(d, n) == job[d][n].ok => job[d][n].pc \in {"recording", "finished"}

JobInv ==
    \A d \in Dispatches, n \in Notifiers : DueInv(d, n) /\ DeadInv(d, n) /\ OkInv(d, n)

LEMMA JobInvStep ==
    ASSUME DeliveryAssumption, TypeOK, JobInv, [Next]_vars PROVE JobInv'
<1>1. CASE Quiet
  BY <1>1 DEF Quiet, JobInv, DueInv, DeadInv, OkInv
<1>2. ASSUME NEW d \in Dispatches, Begins(d) PROVE JobInv'
  <2>1. \A j \in {Fresh, NoJob} : j.pc # "finished" /\ ~j.ok /\ ~j.dead
    BY DEF Fresh, NoJob
  <2>2. ASSUME NEW e \in Dispatches, NEW n \in Notifiers
        PROVE  DueInv(e, n)' /\ DeadInv(e, n)' /\ OkInv(e, n)'
    <3>1. CASE e = d
      BY <1>2, <2>1, <3>1 DEF Begins, DueInv, DeadInv, OkInv
    <3>2. CASE e # d
      BY <1>2, <3>2 DEF Begins, JobInv, DueInv, DeadInv, OkInv
    <3> QED
      BY <3>1, <3>2
  <2> QED
    BY <2>2 DEF JobInv
<1>3. ASSUME NEW d \in Dispatches, NEW n \in Notifiers, JobStep(d, n) PROVE JobInv'
  <2>0. DueInv(d, n) /\ DeadInv(d, n) /\ OkInv(d, n) /\ job[d][n] \in Jobs
    BY DEF JobInv, TypeOK
  <2>1. cancelled' = cancelled /\ cancelled \in BOOLEAN
    BY <1>3, JobFrame, TypedJobs DEF TypeOK
  <2>2. DueInv(d, n)' /\ DeadInv(d, n)' /\ OkInv(d, n)'
    <3>1. CASE Started(d, n)
      BY <2>0, <2>1, <3>1 DEF Started, DueInv, DeadInv, OkInv
    <3>2. CASE Ended(d, n)
      BY <2>0, <2>1, <3>2 DEF Ended, DueInv, DeadInv, OkInv
    <3>3. CASE Recorded(d, n)
      <4> DEFINE i == job[d][n]
      <4>1. /\ NextAttempt(i).ok = i.ok /\ NextAttempt(i).dead = i.dead
            /\ \/ /\ i.ok \/ cancelled \/ i.attempt = MaxRetries
                  /\ NextAttempt(i).pc = "finished" /\ NextAttempt(i).attempt = i.attempt
               \/ ~i.ok /\ ~cancelled /\ NextAttempt(i).pc = "backoff"
        BY <2>0, <2>1, NextAttemptFacts
      <4> QED
        BY <2>0, <2>1, <3>3, <4>1 DEF Recorded, DueInv, DeadInv, OkInv
    <3>4. CASE Stopped(d, n)
      BY <2>0, <2>1, <3>4 DEF Stopped, DueInv, DeadInv, OkInv
    <3> QED
      BY <1>3, <3>1, <3>2, <3>3, <3>4, JobSteps, TypedJobs
  <2>3. \A e \in Dispatches, m \in Notifiers : e # d \/ m # n => job'[e][m] = job[e][m]
    BY <1>3, JobSteps, TypedJobs
  <2>4. ASSUME NEW e \in Dispatches, NEW m \in Notifiers
        PROVE  DueInv(e, m)' /\ DeadInv(e, m)' /\ OkInv(e, m)'
    <3>1. CASE e = d /\ m = n
      BY <2>2, <3>1
    <3>2. CASE e # d \/ m # n
      BY <2>1, <2>3, <3>2 DEF JobInv, DueInv, DeadInv, OkInv
    <3> QED
      BY <3>1, <3>2
  <2> QED
    BY <2>4 DEF JobInv
<1> QED
  BY <1>1, <1>2, <1>3, StepKinds

LEMMA JobInvHolds == Spec => []JobInv
<1>1. Init => JobInv
  BY DEF Init, NoJob, JobInv, DueInv, DeadInv, OkInv
<1>2. TypeOK /\ JobInv /\ [Next]_vars => JobInv'
  BY JobInvStep, DeliveryAssumption
<1> QED
  BY <1>1, <1>2, TypeCorrect, PTL DEF Spec

(* deliver gives a message up only after all its attempts or because the   *)
(* service is stopping.                                                    *)
THEOREM GivesUpWhenDue == Spec => []GivesUpOnlyWhenDue
<1>1. JobInv => GivesUpOnlyWhenDue
  BY DEF JobInv, DueInv, GivesUpOnlyWhenDue
<1> QED
  BY <1>1, JobInvHolds, PTL

(* Once a call has begun under the done context the same goroutine begins  *)
(* no other.                                                               *)
THEOREM OnlyOneLateCall == Spec => OneLateCall
<1> DEFINE Late(d, n) ==
      job[d][n].dead /\ job[d][n].pc # "calling" => job'[d][n].pc # "calling"
<1>1. ASSUME TypeOK, JobInv, [Next]_vars, NEW d \in Dispatches, NEW n \in Notifiers
      PROVE  Late(d, n)
  <2>0. DeadInv(d, n) /\ cancelled \in BOOLEAN /\ job[d][n] \in Jobs
    BY <1>1 DEF JobInv, TypeOK
  <2>1. CASE Quiet
    BY <2>1 DEF Quiet
  <2>2. ASSUME NEW e \in Dispatches, Begins(e) PROVE Late(d, n)
    <3>1. Fresh.pc # "calling" /\ NoJob.pc # "calling"
      BY DEF Fresh, NoJob
    <3> QED
      BY <2>2, <3>1 DEF Begins
  <2>3. ASSUME NEW e \in Dispatches, NEW m \in Notifiers, JobStep(e, m) PROVE Late(d, n)
    <3>1. CASE e # d \/ m # n
      BY <1>1, <2>3, <3>1, JobSteps, TypedJobs, DeliveryAssumption
    <3>2. CASE e = d /\ m = n
      <4>1. Started(d, n) \/ Ended(d, n) \/ Recorded(d, n) \/ Stopped(d, n)
        BY <1>1, <2>3, <3>2, JobSteps, TypedJobs, DeliveryAssumption
      <4>2. NextAttempt(job[d][n]).pc \in {"finished", "backoff"}
        BY <2>0, NextAttemptFacts, DeliveryAssumption
      <4> QED
        BY <2>0, <4>1, <4>2 DEF Started, Ended, Recorded, Stopped, DeadInv
    <3> QED
      BY <3>1, <3>2
  <2> QED
    BY <1>1, <2>1, <2>2, <2>3, StepKinds, DeliveryAssumption
<1>2. TypeOK /\ JobInv /\ [Next]_vars
        => [\A d \in Dispatches, n \in Notifiers : Late(d, n)]_vars
  BY <1>1
<1> QED
  BY <1>2, TypeCorrect, JobInvHolds, PTL DEF Spec, OneLateCall

(* Another message at the end of an inbox.                                 *)
LEMMA AppendCopies ==
    ASSUME NEW q \in Seq(Dispatches), NEW d, NEW e \in Dispatches
    PROVE  {i \in DOMAIN Append(q, e) : Append(q, e)[i] = d}
             = {i \in DOMAIN q : q[i] = d} \cup (IF d = e THEN {Len(q) + 1} ELSE {})
<1> DEFINE r == Append(q, e)
<1>1. /\ DOMAIN r = 1 .. Len(q) + 1 /\ DOMAIN q = 1 .. Len(q) /\ Len(q) \in Nat
      /\ r[Len(q) + 1] = e /\ \A i \in 1 .. Len(q) : r[i] = q[i]
  OBVIOUS
<1>2. DOMAIN r = DOMAIN q \cup {Len(q) + 1} /\ Len(q) + 1 \notin DOMAIN q
  BY <1>1
<1> HIDE DEF r
<1>3. {i \in DOMAIN r : r[i] = d}
        = {i \in DOMAIN q : q[i] = d} \cup (IF d = e THEN {Len(q) + 1} ELSE {})
  BY <1>1, <1>2
<1> QED
  BY <1>3 DEF r

LEMMA NextCopies ==
    ASSUME TypeOK, NEW d \in Dispatches, NEW n \in Notifiers
    PROVE  /\ inbox'[n] = inbox[n] => Copies(n, d)' = Copies(n, d)
           /\ \A e \in Dispatches : inbox'[n] = Append(inbox[n], e) =>
                  Copies(n, d)' = Copies(n, d) \cup (IF d = e THEN {Len(inbox[n]) + 1} ELSE {})
<1>1. inbox[n] \in Seq(Dispatches)
  BY DEF TypeOK
<1>2. ASSUME NEW e \in Dispatches, inbox'[n] = Append(inbox[n], e)
      PROVE  Copies(n, d)' = Copies(n, d) \cup (IF d = e THEN {Len(inbox[n]) + 1} ELSE {})
  <2>1. Copies(n, d)' = {i \in DOMAIN Append(inbox[n], e) : Append(inbox[n], e)[i] = d}
    BY <1>2 DEF Copies
  <2> QED
    BY <1>1, <2>1, AppendCopies DEF Copies
<1> QED
  BY <1>2 DEF Copies

(* A message that was accepted with nil is not sent again.                 *)
THEOREM NothingAfterSuccess == Spec => NoCopyAfterSuccess
<1> DEFINE Same(d, n) == job[d][n].ok => Copies(n, d)' = Copies(n, d)
<1>1. ASSUME TypeOK, JobInv, [Next]_vars, NEW d \in Dispatches, NEW n \in Notifiers
      PROVE  Same(d, n)
  <2>0. OkInv(d, n) /\ inbox[n] \in Seq(Dispatches) /\ inbox \in [Notifiers -> Seq(Dispatches)]
    BY <1>1 DEF JobInv, TypeOK
  <2>1. CASE inbox' = inbox
    BY <2>1 DEF Copies
  <2>2. ASSUME NEW e \in Dispatches, NEW m \in Notifiers, JobStep(e, m), inbox' # inbox
        PROVE  Same(d, n)
    <3>1. job[e][m].pc = "calling" /\ inbox' = [inbox EXCEPT ![m] = Append(@, e)]
      BY <1>1, <2>2, JobFrame, TypedJobs
    <3>2. CASE n # m
      BY <2>0, <3>1, <3>2 DEF Copies
    <3>3. CASE n = m /\ d = e
      BY <2>0, <3>1, <3>3 DEF OkInv
    <3>4. CASE n = m /\ d # e
      <4>1. inbox'[n] = Append(inbox[n], e)
        BY <2>0, <3>1, <3>4
      <4> QED
        BY <1>1, <3>4, <4>1, NextCopies
    <3> QED
      BY <3>2, <3>3, <3>4
  <2> QED
    BY <1>1, <2>1, <2>2, StepKinds, DeliveryAssumption DEF Quiet, Begins
<1>2. TypeOK /\ JobInv /\ [Next]_vars
        => [\A d \in Dispatches, n \in Notifiers : Same(d, n)]_vars
  BY <1>1
<1> QED
  BY <1>2, TypeCorrect, JobInvHolds, PTL DEF Spec, NoCopyAfterSuccess

----------------------------------------------------------------------------
(* The order of the changes.  Run takes one event at a time, so every      *)
(* dispatch of the loop before the current one is over, with all its       *)
(* goroutines, and what is in an inbox is not newer than the current one.  *)

TakenInv ==
    /\ \A v \in Events : v > taken => phase[v] = "before"
    /\ \A v \in Events : v < taken => phase[v] = "after"

PhaseInv ==
    \A d \in Dispatches, n \in Notifiers :
        /\ phase[d] = "before" => job[d][n].pc = "none"
        /\ phase[d] = "after" => job[d][n].pc \in {"none", "finished"}

InOrder(q) ==
    \A i, j \in DOMAIN q : i < j /\ {q[i], q[j]} \subseteq Events => q[i] <= q[j]
UpTo(q, v) == \A i \in DOMAIN q : q[i] \in Events => q[i] <= v

InboxInv == \A n \in Notifiers : InOrder(inbox[n]) /\ UpTo(inbox[n], taken)

OrderInv == TakenInv /\ PhaseInv /\ InboxInv

LEMMA AppendInOrder ==
    ASSUME NEW q \in Seq(Dispatches), NEW d \in Dispatches, NEW v \in Nat,
           InOrder(q), UpTo(q, v), d \in Events => d = v, MaxEvents \in Nat
    PROVE  InOrder(Append(q, d)) /\ UpTo(Append(q, d), v)
<1> DEFINE r == Append(q, d)
<1>1. /\ DOMAIN r = 1 .. Len(q) + 1 /\ DOMAIN q = 1 .. Len(q) /\ Len(q) \in Nat
      /\ r[Len(q) + 1] = d /\ \A i \in 1 .. Len(q) : r[i] = q[i]
  OBVIOUS
<1> HIDE DEF r
<1>2. UpTo(r, v)
  BY <1>1 DEF UpTo
<1>3. ASSUME NEW i \in DOMAIN r, NEW j \in DOMAIN r, i < j, r[i] \in Events, r[j] \in Events
      PROVE  r[i] <= r[j]
  <2>1. CASE j = Len(q) + 1
    BY <1>1, <1>2, <1>3, <2>1 DEF UpTo
  <2>2. CASE j # Len(q) + 1
    <3>1. i \in DOMAIN q /\ j \in DOMAIN q /\ r[i] = q[i] /\ r[j] = q[j]
      BY <1>1, <1>3, <2>2
    <3> QED
      BY <1>3, <3>1 DEF InOrder
  <2> QED
    BY <2>1, <2>2
<1>4. InOrder(r)
  BY <1>3 DEF InOrder
<1> QED
  BY <1>2, <1>4 DEF r

(* An append to one inbox: every caller that is inside a call belongs to a *)
(* dispatch that waits, and the only waiting dispatch of the loop is the   *)
(* last it took.                                                           *)
LEMMA InboxStep ==
    ASSUME DeliveryAssumption, TypeOK, OrderInv, NEW d \in Dispatches, NEW n \in Notifiers,
           JobStep(d, n)
    PROVE  InboxInv'
<1>1. taken' = taken /\ taken \in Nat /\ MaxEvents \in Nat
      /\ inbox \in [Notifiers -> Seq(Dispatches)]
  BY JobFrame, TypedJobs DEF TypeOK, DeliveryAssumption
<1>2. CASE inbox' = inbox
  BY <1>1, <1>2 DEF OrderInv, InboxInv
<1>3. CASE job[d][n].pc = "calling" /\ inbox' = [inbox EXCEPT ![n] = Append(@, d)]
  <2>1. phase[d] = "waiting"
    BY <1>3 DEF OrderInv, PhaseInv, TypeOK
  <2>2. d \in Events => d = taken
    <3>1. SUFFICES ASSUME d \in Events PROVE d = taken
      OBVIOUS
    <3>2. d \in Nat
      BY <3>1, <1>1
    <3> QED
      BY <3>1, <3>2, <2>1, <1>1 DEF OrderInv, TakenInv
  <2>3. inbox'[n] = Append(inbox[n], d) /\ \A m \in Notifiers : m # n => inbox'[m] = inbox[m]
    BY <1>1, <1>3
  <2>4. InOrder(inbox[n]) /\ UpTo(inbox[n], taken) /\ inbox[n] \in Seq(Dispatches)
    BY <1>1 DEF OrderInv, InboxInv
  <2>5. InOrder(inbox'[n]) /\ UpTo(inbox'[n], taken)
    BY <1>1, <2>2, <2>3, <2>4, AppendInOrder
  <2>6. ASSUME NEW m \in Notifiers PROVE InOrder(inbox'[m]) /\ UpTo(inbox'[m], taken)
    BY <2>3, <2>5 DEF OrderInv, InboxInv
  <2> QED
    BY <1>1, <2>6 DEF InboxInv
<1> QED
  BY <1>2, <1>3, JobFrame, TypedJobs

(* The steps that begin or end a dispatch.                                 *)
LEMMA BeginPhase ==
    ASSUME TypeOK, PhaseInv, NEW d \in Dispatches, Begin(d), inbox' = inbox,
           cancelled' = cancelled
    PROVE  PhaseInv'
<1>1. phase' = [phase EXCEPT ![d] = "waiting"]
      /\ \A e \in Dispatches, n \in Notifiers : e # d => job'[e][n] = job[e][n]
  BY BeginBegins DEF Begin, Begins
<1> QED
  BY <1>1 DEF PhaseInv, TypeOK

LEMMA OrderStep ==
    ASSUME DeliveryAssumption, TypeOK, OrderInv, [Next]_vars PROVE OrderInv'
<1>0. taken \in Nat /\ MaxEvents \in Nat /\ \A v \in Events : v \in Nat /\ v > 0
  BY DEF TypeOK, DeliveryAssumption
<1>1. CASE AddressChanges \/ Cancel \/ ReadAddresses \/ UNCHANGED vars
  BY <1>1 DEF AddressChanges, Cancel, ReadAddresses, vars, OrderInv, TakenInv, PhaseInv, InboxInv
<1>2. ASSUME NEW ns \in (SUBSET Notifiers) \ {{}}, SetNotifiers(ns) PROVE OrderInv'
  BY <1>2 DEF SetNotifiers, OrderInv, TakenInv, PhaseInv, InboxInv
<1>3. ASSUME NEW v \in Events, LoopTakes(v) PROVE OrderInv'
  <2>1. /\ taken' = v /\ v = taken + 1 /\ inbox' = inbox /\ cancelled' = cancelled
        /\ Begin(v) /\ (taken > 0 => phase[taken] = "after")
        /\ phase' = [phase EXCEPT ![v] = "waiting"]
    BY <1>3 DEF LoopTakes, Begin
  <2>2. \A w \in Events : w # v => phase'[w] = phase[w]
    BY <2>1 DEF TypeOK
  <2>3. TakenInv'
    BY <1>0, <2>1, <2>2 DEF OrderInv, TakenInv
  <2>4. PhaseInv'
    BY <2>1, BeginPhase DEF OrderInv
  <2>5. ASSUME NEW n \in Notifiers PROVE UpTo(inbox[n], v)
    <3>1. UpTo(inbox[n], taken)
      BY DEF OrderInv, InboxInv
    <3>2. ASSUME NEW i \in DOMAIN inbox[n], inbox[n][i] \in Events PROVE inbox[n][i] <= v
      BY <1>0, <2>1, <3>1, <3>2 DEF UpTo
    <3> QED
      BY <3>2 DEF UpTo
  <2>6. InboxInv'
    BY <2>1, <2>5 DEF OrderInv, InboxInv
  <2> QED
    BY <2>3, <2>4, <2>6 DEF OrderInv
<1>4. ASSUME Announce \/ TestAll PROVE OrderInv'
  <2>1. PICK d \in Dispatches \ Nat :
           /\ taken' = taken /\ inbox' = inbox /\ cancelled' = cancelled
           /\ Begin(d) /\ phase' = [phase EXCEPT ![d] = "waiting"]
    BY <1>4 DEF Announce, TestAll, Begin, DeliveryAssumption
  <2>2. \A w \in Events : phase'[w] = phase[w]
    BY <1>0, <2>1 DEF TypeOK
  <2>3. PhaseInv'
    BY <2>1, BeginPhase DEF OrderInv
  <2> QED
    BY <2>1, <2>2, <2>3 DEF OrderInv, TakenInv, InboxInv
<1>5. ASSUME SkipAnnounce PROVE OrderInv'
  <2>1. /\ phase' = [phase EXCEPT ![Startup] = "after"] /\ phase[Startup] = "before"
        /\ Startup \in Dispatches /\ Startup \notin Events
        /\ job' = job /\ inbox' = inbox /\ taken' = taken
    BY <1>5, <1>0 DEF SkipAnnounce, DeliveryAssumption
  <2> QED
    BY <2>1 DEF OrderInv, TakenInv, PhaseInv, InboxInv, TypeOK
<1>6. ASSUME NEW d \in Dispatches, DispatchReturns(d) PROVE OrderInv'
  <2>1. /\ phase' = [phase EXCEPT ![d] = "after"] /\ phase[d] = "waiting"
        /\ \A n \in Notifiers : job[d][n].pc \in {"none", "finished"}
        /\ job' = job /\ inbox' = inbox /\ taken' = taken
    BY <1>6 DEF DispatchReturns
  <2>2. PhaseInv'
    BY <2>1 DEF OrderInv, PhaseInv, TypeOK
  <2>3. TakenInv'
    BY <2>1, <1>0 DEF OrderInv, TakenInv, TypeOK
  <2> QED
    BY <2>1, <2>2, <2>3 DEF OrderInv, InboxInv
<1>7. ASSUME NEW d \in Dispatches, NEW n \in Notifiers, JobStep(d, n) PROVE OrderInv'
  <2>1. phase' = phase /\ taken' = taken
    BY <1>7, JobFrame, TypedJobs
  <2>2. phase[d] = "waiting"
    <3>1. job[d][n].pc \in {"ready", "backoff", "calling", "recording"}
      BY <1>7, JobSteps, TypedJobs DEF Started, Ended, Recorded, Stopped
    <3> QED
      BY <3>1 DEF OrderInv, PhaseInv, TypeOK
  <2>3. \A e \in Dispatches, m \in Notifiers : e # d => job'[e][m] = job[e][m]
    BY <1>7, JobSteps, TypedJobs
  <2>4. ASSUME NEW e \in Dispatches, NEW m \in Notifiers
        PROVE  /\ phase'[e] = "before" => job'[e][m].pc = "none"
               /\ phase'[e] = "after" => job'[e][m].pc \in {"none", "finished"}
    <3>1. CASE e = d
      BY <2>1, <2>2, <3>1
    <3>2. CASE e # d
      BY <2>1, <2>3, <3>2 DEF OrderInv, PhaseInv
    <3> QED
      BY <3>1, <3>2
  <2>5. PhaseInv'
    BY <2>4 DEF PhaseInv
  <2> QED
    BY <1>7, <2>1, <2>5, InboxStep DEF OrderInv, TakenInv
<1> QED
  BY <1>1, <1>2, <1>3, <1>4, <1>5, <1>6, <1>7 DEF Next

LEMMA OrderHolds == Spec => []OrderInv
<1>1. DeliveryAssumption /\ Init => OrderInv
  <2>1. \A n \in Notifiers : DeliveryAssumption /\ Init => inbox[n] = <<>>
    BY DEF Init
  <2> QED
    BY <2>1 DEF Init, NoJob, OrderInv, TakenInv, PhaseInv, InboxInv, InOrder, UpTo, DeliveryAssumption
<1>2. TypeOK /\ OrderInv /\ [Next]_vars => OrderInv'
  BY OrderStep, DeliveryAssumption
<1> QED
  BY <1>1, <1>2, DeliveryAssumption, TypeCorrect, PTL DEF Spec

(* The changes reach every inbox in the order they happened.               *)
THEOREM ChangesInOrder == Spec => []ChangesArriveInOrder
<1>1. OrderInv => ChangesArriveInOrder
  BY DEF OrderInv, InboxInv, InOrder, ChangesArriveInOrder
<1> QED
  BY <1>1, OrderHolds, PTL

----------------------------------------------------------------------------
(* How many copies of a message there can be: one for each call that has   *)
(* ended, and no test goroutine gets past its first call.                  *)

CallsEnded(j) ==
    IF j.pc \in {"none", "ready"} THEN 0
    ELSE IF j.pc \in {"recording", "finished"} THEN j.attempt + 1 ELSE j.attempt

CopiesInv ==
    \A d \in Dispatches, n \in Notifiers :
        /\ IsFiniteSet(Copies(n, d))
        /\ Cardinality(Copies(n, d)) <= CallsEnded(job[d][n])

TestInv ==
    \A n \in Notifiers : Test \in Dispatches =>
        job[Test][n].attempt = 0 /\ job[Test][n].pc \in {"none", "ready", "calling", "finished"}

LEMMA TestInvStep ==
    ASSUME DeliveryAssumption, TypeOK, TestInv, [Next]_vars PROVE TestInv'
<1> SUFFICES ASSUME NEW n \in Notifiers, Test \in Dispatches
             PROVE  /\ job'[Test][n].attempt = 0
                    /\ job'[Test][n].pc \in {"none", "ready", "calling", "finished"}
  BY DEF TestInv
<1>0. /\ job[Test][n].attempt = 0
      /\ job[Test][n].pc \in {"none", "ready", "calling", "finished"}
  BY DEF TestInv
<1>1. CASE Quiet
  BY <1>0, <1>1 DEF Quiet
<1>2. ASSUME NEW d \in Dispatches, Begins(d)
      PROVE  /\ job'[Test][n].attempt = 0
             /\ job'[Test][n].pc \in {"none", "ready", "calling", "finished"}
  BY <1>0, <1>2 DEF Begins, Fresh, NoJob
<1>3. ASSUME NEW d \in Dispatches, NEW m \in Notifiers, JobStep(d, m)
      PROVE  /\ job'[Test][n].attempt = 0
             /\ job'[Test][n].pc \in {"none", "ready", "calling", "finished"}
  <2>1. CASE d # Test \/ m # n
    BY <1>0, <1>3, <2>1, JobSteps, TypedJobs
  <2>2. CASE d = Test /\ m = n
    <3>1. Started(d, m) \/ Ended(d, m) \/ Recorded(d, m) \/ Stopped(d, m)
      BY <1>3, JobSteps, TypedJobs
    <3> QED
      BY <1>0, <2>2, <3>1 DEF Started, Ended, Recorded, Stopped
  <2> QED
    BY <2>1, <2>2
<1> QED
  BY <1>1, <1>2, <1>3, StepKinds

LEMMA OneMoreElement ==
    ASSUME NEW S, IsFiniteSet(S), NEW x
    PROVE  IsFiniteSet(S \cup {x}) /\ Cardinality(S \cup {x}) <= Cardinality(S) + 1
<1>1. /\ IsFiniteSet(S \cup {x})
      /\ \/ Cardinality(S \cup {x}) = Cardinality(S)
         \/ Cardinality(S \cup {x}) = Cardinality(S) + 1
  BY FS_AddElement
<1>2. Cardinality(S) \in Nat
  BY FS_CardinalityType
<1> QED
  BY <1>1, <1>2

LEMMA CopiesInvStep ==
    ASSUME DeliveryAssumption, TypeOK, OrderInv, CopiesInv, [Next]_vars PROVE CopiesInv'
<1> DEFINE Few(d, n) == /\ IsFiniteSet(Copies(n, d)')
                        /\ Cardinality(Copies(n, d)') <= CallsEnded(job'[d][n])
<1> SUFFICES ASSUME NEW d \in Dispatches, NEW n \in Notifiers PROVE Few(d, n)
  BY DEF CopiesInv
<1>0. /\ IsFiniteSet(Copies(n, d)) /\ Cardinality(Copies(n, d)) <= CallsEnded(job[d][n])
      /\ Cardinality(Copies(n, d)) \in Nat
      /\ inbox \in [Notifiers -> Seq(Dispatches)] /\ inbox[n] \in Seq(Dispatches)
      /\ job[d][n] \in Jobs /\ job[d][n].attempt \in Nat /\ MaxRetries \in Nat
  <2>1. IsFiniteSet(Copies(n, d)) /\ Cardinality(Copies(n, d)) <= CallsEnded(job[d][n])
    BY DEF CopiesInv
  <2>2. inbox \in [Notifiers -> Seq(Dispatches)] /\ job[d][n] \in Jobs
    BY DEF TypeOK
  <2>3. job[d][n].attempt \in 0 .. MaxRetries /\ MaxRetries \in Nat
    BY <2>2 DEF Jobs, DeliveryAssumption
  <2> QED
    BY <2>1, <2>2, <2>3, FS_CardinalityType
<1>1. CASE Quiet
  BY <1>0, <1>1 DEF Quiet, Copies
<1>2. ASSUME NEW e \in Dispatches, Begins(e) PROVE Few(d, n)
  <2>1. Copies(n, d)' = Copies(n, d)
    BY <1>2 DEF Begins, Copies
  <2>2. CASE e = d
    <3>1. CallsEnded(job[d][n]) = 0
      BY <1>2, <2>2 DEF OrderInv, PhaseInv, Begins, CallsEnded
    <3>2. CallsEnded(job'[d][n]) = 0
      BY <1>2, <2>2 DEF Begins, CallsEnded, Fresh, NoJob
    <3> QED
      BY <1>0, <2>1, <3>1, <3>2
  <2>3. CASE e # d
    BY <1>0, <1>2, <2>1, <2>3 DEF Begins
  <2> QED
    BY <2>2, <2>3
<1>3. ASSUME NEW e \in Dispatches, NEW m \in Notifiers, JobStep(e, m) PROVE Few(d, n)
  <2>1. CASE ~(e = d /\ m = n)
    <3>1. job'[d][n] = job[d][n]
      BY <1>3, <2>1, JobSteps, TypedJobs
    <3>2. \/ inbox' = inbox
          \/ inbox' = [inbox EXCEPT ![m] = Append(@, e)]
      BY <1>3, JobFrame, TypedJobs
    <3>3. inbox'[n] = inbox[n] \/ (e # d /\ inbox'[n] = Append(inbox[n], e))
      BY <1>0, <2>1, <3>2
    <3>4. Copies(n, d)' = Copies(n, d)
      BY <3>3, NextCopies
    <3> QED
      BY <1>0, <3>1, <3>4
  <2>2. CASE e = d /\ m = n
    <3>1. Started(d, n) \/ Ended(d, n) \/ Recorded(d, n) \/ Stopped(d, n)
      BY <1>3, <2>2, JobSteps, TypedJobs
    <3>2. CASE Started(d, n)
      <4>1. CallsEnded(job'[d][n]) >= CallsEnded(job[d][n])
        BY <1>0, <3>2 DEF Started, CallsEnded
      <4>2. Copies(n, d)' = Copies(n, d)
        BY <3>2 DEF Started, Copies
      <4>3. CallsEnded(job[d][n]) \in Nat /\ CallsEnded(job'[d][n]) \in Nat
        BY <1>0, <3>2 DEF Started, CallsEnded
      <4> QED
        BY <1>0, <4>1, <4>2, <4>3
    <3>3. CASE Ended(d, n)
      <4>1. CallsEnded(job[d][n]) = job[d][n].attempt
            /\ CallsEnded(job'[d][n]) = job[d][n].attempt + 1
        BY <3>3 DEF Ended, CallsEnded
      <4>2. inbox'[n] = inbox[n] \/ inbox'[n] = Append(inbox[n], d)
        BY <1>0, <3>3 DEF Ended
      <4>3. \/ Copies(n, d)' = Copies(n, d)
            \/ Copies(n, d)' = Copies(n, d) \cup {Len(inbox[n]) + 1}
        BY <4>2, NextCopies
      <4>4. /\ IsFiniteSet(Copies(n, d)')
            /\ Cardinality(Copies(n, d)') <= Cardinality(Copies(n, d)) + 1
        <5>1. CASE Copies(n, d)' = Copies(n, d)
          BY ONLY <1>0, <5>1
        <5>2. CASE Copies(n, d)' = Copies(n, d) \cup {Len(inbox[n]) + 1}
          BY ONLY <1>0, <5>2, OneMoreElement
        <5> QED
          BY <4>3, <5>1, <5>2
      <4>5. Cardinality(Copies(n, d)') \in Nat
        BY <4>4, FS_CardinalityType
      <4> QED
        BY <1>0, <4>1, <4>4, <4>5
    <3>4. CASE Recorded(d, n)
      <4>1. \/ NextAttempt(job[d][n]).pc = "finished"
               /\ NextAttempt(job[d][n]).attempt = job[d][n].attempt
            \/ NextAttempt(job[d][n]).pc = "backoff"
               /\ NextAttempt(job[d][n]).attempt = job[d][n].attempt + 1
        BY <1>0, NextAttemptFacts DEF TypeOK
      <4>2. CallsEnded(job'[d][n]) = CallsEnded(job[d][n])
        BY <3>4, <4>1 DEF Recorded, CallsEnded
      <4> QED
        BY <1>0, <3>4, <4>2 DEF Recorded, Copies
    <3>5. CASE Stopped(d, n)
      <4>1. CallsEnded(job[d][n]) = job[d][n].attempt
            /\ CallsEnded(job'[d][n]) = job[d][n].attempt + 1
        BY <3>5 DEF Stopped, CallsEnded
      <4> QED
        BY <1>0, <3>5, <4>1 DEF Stopped, Copies
    <3> QED
      BY <3>1, <3>2, <3>3, <3>4, <3>5
  <2> QED
    BY <2>1, <2>2
<1> QED
  BY <1>1, <1>2, <1>3, StepKinds

LEMMA CopiesHold == Spec => []CopiesInv /\ []TestInv
<1>1. ASSUME DeliveryAssumption, Init PROVE CopiesInv /\ TestInv
  <2>1. \A d \in Dispatches, n \in Notifiers : Copies(n, d) = {} /\ job[d][n] = NoJob
    BY <1>1 DEF Init, Copies
  <2>2. CallsEnded(NoJob) = 0 /\ NoJob.attempt = 0 /\ NoJob.pc = "none"
    BY DEF CallsEnded, NoJob
  <2>3. IsFiniteSet({}) /\ Cardinality({}) = 0
    BY FS_EmptySet
  <2>4. CopiesInv
    BY <2>1, <2>2, <2>3 DEF CopiesInv
  <2>5. TestInv
    BY <2>1, <2>2 DEF TestInv
  <2> QED
    BY <2>4, <2>5
<1>2. TypeOK /\ OrderInv /\ CopiesInv /\ [Next]_vars => CopiesInv'
  BY CopiesInvStep, DeliveryAssumption
<1>3. TypeOK /\ TestInv /\ [Next]_vars => TestInv'
  BY TestInvStep, DeliveryAssumption
<1> QED
  BY <1>1, <1>2, <1>3, DeliveryAssumption, TypeCorrect, OrderHolds, PTL DEF Spec

(* No message more than maxRetries + 1 times, no test message twice.       *)
THEOREM CopiesAreBounded == Spec => []BoundedCopies
<1>1. ASSUME DeliveryAssumption, TypeOK, CopiesInv, TestInv PROVE BoundedCopies
  <2>1. ASSUME NEW d \in Dispatches, NEW n \in Notifiers
        PROVE  Cardinality(Copies(n, d)) <= IF d = Test THEN 1 ELSE MaxRetries + 1
    <3>1. /\ Cardinality(Copies(n, d)) \in Nat /\ job[d][n].attempt \in 0 .. MaxRetries
          /\ Cardinality(Copies(n, d)) <= CallsEnded(job[d][n]) /\ MaxRetries \in Nat
      BY <1>1, FS_CardinalityType DEF CopiesInv, TypeOK, Jobs, DeliveryAssumption
    <3>2. CallsEnded(job[d][n]) \in 0 .. job[d][n].attempt + 1
      BY <3>1 DEF CallsEnded
    <3>3. d = Test => job[d][n].attempt = 0
      BY <1>1 DEF TestInv
    <3> QED
      BY <3>1, <3>2, <3>3
  <2> QED
    BY <2>1 DEF BoundedCopies
<1> QED
  BY <1>1, DeliveryAssumption, CopiesHold, TypeCorrect, PTL

----------------------------------------------------------------------------
(* What /status says of the loop's dispatch, for a notifier that shares    *)
(* its entry with nobody: nothing while its calls go on, a failure between *)
(* two attempts, and its last outcome when its goroutine has ended.        *)

Alone(n) == \A m \in Notifiers \ {n} : Name[m] # Name[n]

Stated(d, n) ==
    /\ job[d][n].pc = "finished" => (status[Name[n]] = "ok" <=> job[d][n].ok)
    /\ job[d][n].pc = "backoff" => status[Name[n]] # "ok"

StatedInv ==
    Startup \notin Extras /\ taken > 0 =>
        \A n \in Notifiers : Alone(n) => Stated(taken, n)

(* Only the step after a call writes the status, and only its own entry.   *)
LEMMA StatusSteps ==
    ASSUME TypeOK, NEW d \in Dispatches, NEW n \in Notifiers, JobStep(d, n)
    PROVE  /\ \A m \in Notifiers : Name[m] # Name[n] => status'[Name[m]] = status[Name[m]]
           /\ job[d][n].pc # "recording" => status' = status
           /\ job[d][n].pc = "recording" =>
                  status'[Name[n]] = IF job[d][n].ok THEN "ok" ELSE "err"
<1>1. status \in [Names -> {"none", "ok", "err"}] /\ \A m \in Notifiers : Name[m] \in Names
  BY DEF TypeOK, Names
<1>2. CASE StartCall(d, n) \/ StopWaiting(d, n)
  BY <1>2 DEF StartCall, StopWaiting
<1>3. CASE \E outcome \in {"ok", "refused", "lost"} : CallEnds(d, n, outcome)
  BY <1>3 DEF CallEnds
<1>4. CASE Record(d, n)
  BY <1>1, <1>4 DEF Record
<1> QED
  BY <1>2, <1>3, <1>4 DEF JobStep

(* What a goroutine of the current dispatch makes of Stated.               *)
LEMMA StatedStep ==
    ASSUME DeliveryAssumption, TypeOK, JobInv, NEW d \in Events, NEW n \in Notifiers,
           JobStep(d, n), Stated(d, n)
    PROVE  Stated(d, n)'
<1> DEFINE i == job[d][n]
<1>0. i \in Jobs /\ cancelled \in BOOLEAN /\ d # Test
  <2>1. d \in Nat /\ Test \notin Nat
    BY DEF DeliveryAssumption
  <2>2. i \in Jobs /\ cancelled \in BOOLEAN
    BY TypedJobs DEF JobsTyped
  <2> QED
    BY <2>1, <2>2
<1>1. CASE Started(d, n)
  BY <1>1 DEF Started, Stated
<1>2. CASE Ended(d, n)
  <2>1. job'[d][n].pc = "recording"
    BY <1>0, <1>2 DEF Ended
  <2> QED
    BY <2>1, Zenon DEF Stated
<1>3. CASE Recorded(d, n)
  <2>1. status'[Name[n]] = IF i.ok THEN "ok" ELSE "err"
    BY <1>3, StatusSteps DEF Recorded
  <2>2. /\ job'[d][n].ok = i.ok
        /\ job'[d][n].pc = "backoff" => ~i.ok
    BY <1>0, <1>3, NextAttemptFacts DEF Recorded
  <2> HIDE DEF i
  <2> QED
    BY <2>1, <2>2 DEF Stated
<1>4. CASE Stopped(d, n)
  <2>1. status' = status /\ status[Name[n]] # "ok" /\ ~i.ok
    BY <1>4, StatusSteps DEF Stopped, Stated, JobInv, OkInv
  <2>2. job'[d][n].ok = i.ok /\ job'[d][n].pc = "finished"
    BY <1>4 DEF Stopped
  <2> HIDE DEF i
  <2> QED
    BY <2>1, <2>2 DEF Stated
<1> QED
  BY <1>1, <1>2, <1>3, <1>4, JobSteps, TypedJobs

LEMMA StatedInvStep ==
    ASSUME DeliveryAssumption, TypeOK, JobInv, OrderInv, TestInv, StatedInv, [Next]_vars
    PROVE  StatedInv'
<1> SUFFICES ASSUME Startup \notin Extras, taken' > 0, NEW n \in Notifiers, Alone(n)
             PROVE  Stated(taken, n)'
  BY DEF StatedInv, Alone
<1>0. /\ taken \in Nat /\ taken <= MaxEvents /\ MaxEvents \in Nat
      /\ taken > 0 => Stated(taken, n) /\ taken \in Events
      /\ Test \notin Events
  BY DEF TypeOK, StatedInv, DeliveryAssumption
<1>1. CASE UNCHANGED <<taken, status, job>>
  BY <1>0, <1>1 DEF Stated
<1>2. CASE AddressChanges \/ Cancel \/ ReadAddresses \/ SkipAnnounce \/ UNCHANGED vars
  BY <1>1, <1>2 DEF AddressChanges, Cancel, ReadAddresses, SkipAnnounce, vars
<1>3. ASSUME NEW ns \in (SUBSET Notifiers) \ {{}}, SetNotifiers(ns) PROVE Stated(taken, n)'
  BY <1>1, <1>3 DEF SetNotifiers
<1>4. ASSUME NEW d \in Dispatches, DispatchReturns(d) PROVE Stated(taken, n)'
  BY <1>1, <1>4 DEF DispatchReturns
<1>5. ASSUME NEW v \in Events, LoopTakes(v) PROVE Stated(taken, n)'
  <2>1. taken' = v /\ job'[v][n] \in {Fresh, NoJob}
    BY <1>5, BeginBegins DEF LoopTakes, Begins
  <2> QED
    BY <2>1 DEF Stated, Fresh, NoJob
<1>6. ASSUME TestAll PROVE Stated(taken, n)'
  <2>1. UNCHANGED <<taken, status>> /\ Test \in Dispatches /\ Begins(Test)
    BY <1>6, BeginBegins DEF TestAll
  <2>2. job'[taken][n] = job[taken][n]
    BY <1>0, <2>1 DEF Begins
  <2> QED
    BY <1>0, <2>1, <2>2 DEF Stated
<1>7. ASSUME NEW d \in Dispatches, NEW m \in Notifiers, JobStep(d, m) PROVE Stated(taken, n)'
  <2>1. taken' = taken
    BY <1>7, JobFrame, TypedJobs
  <2>2. CASE d = taken /\ m = n
    BY <1>0, <1>7, <2>1, <2>2, StatedStep
  <2>3. CASE d # taken \/ m # n
    <3>1. job'[taken][n] = job[taken][n]
      BY <1>0, <1>7, <2>1, <2>3, JobSteps, TypedJobs
    <3>2. status'[Name[n]] = status[Name[n]]
      <4>1. CASE m # n
        BY <1>7, <4>1, StatusSteps DEF Alone
      <4>2. CASE m = n /\ job[d][m].pc # "recording"
        BY <1>7, <4>2, StatusSteps
      <4>3. CASE m = n /\ job[d][m].pc = "recording"
        <5>1. d \in Events
          BY <4>3 DEF TestInv, DeliveryAssumption
        <5>2. phase[d] = "waiting"
          BY <4>3 DEF OrderInv, PhaseInv, TypeOK
        <5>3. d = taken
          BY <1>0, <5>1, <5>2 DEF OrderInv, TakenInv
        <5> QED
          BY <2>3, <4>3, <5>3
      <4> QED
        BY <4>1, <4>2, <4>3
    <3> QED
      BY <1>0, <2>1, <3>1, <3>2 DEF Stated
  <2> QED
    BY <2>2, <2>3
<1> QED
  BY <1>2, <1>3, <1>4, <1>5, <1>6, <1>7 DEF Next, Announce

(* /status tells the outcome of the last change for every notifier whose   *)
(* type no other has.                                                      *)
THEOREM StatusTells == Spec => []StatusTellsTheOutcome
<1>1. Init => StatedInv
  BY DEF Init, StatedInv
<1>2. TypeOK /\ JobInv /\ OrderInv /\ TestInv /\ StatedInv /\ [Next]_vars => StatedInv'
  BY StatedInvStep, DeliveryAssumption
<1>3. StatedInv => StatusTellsTheOutcome
  BY DEF StatedInv, Stated, Alone, StatusTellsTheOutcome
<1> QED
  BY <1>1, <1>2, <1>3, TypeCorrect, JobInvHolds, OrderHolds, CopiesHold, PTL DEF Spec

=============================================================================
