------------------------------ MODULE EndToEnd ------------------------------
(***************************************************************************)
(* From the network interface to the subscriber: the watchers, the channel *)
(* and Engine.Run's loop (EventPipeline) together with dispatch and the    *)
(* deliver goroutines (Delivery), between two reloads.  The two components *)
(* share the context and two steps of the loop:                            *)
(*                                                                         *)
(*   - accepting an event starts the deliver goroutines of a dispatch;     *)
(*   - dispatch returns when the last of its goroutines has ended.         *)
(*                                                                         *)
(* EventPipeline takes the second for granted and Delivery takes the       *)
(* events from nowhere.  Here a slow or failing notifier holds up the      *)
(* loop, the channel fills, the watchers block and the polls they miss     *)
(* coalesce; and what a subscriber has read is the story of the machine's  *)
(* addresses.                                                              *)
(***************************************************************************)
EXTENDS Integers, Sequences, FiniteSets

CONSTANTS
    Interfaces, Public, Addrs, NoAddrs, Enabled, ChanCap,   \* EventPipeline
    MaxChanges, MaxFaults, MaxAnswers,
    Notifiers, Healthy, Name, Startup, Test, MaxRetries,    \* Delivery
    MaxEvents   \* bound: events the loop accepts

VARIABLES
    addrs, budget, wpc, prev, cur, todo, events, closed,    \* EventPipeline
    epc, inHand, last, state, changedKeys,
    cancelled,                                              \* both
    notifiers, taken, phase, job, status, inbox,            \* Delivery
    story       \* history: the events accepted; the v-th is dispatch v

P == INSTANCE EventPipeline

(* The queued events that the loop will accept, with no other on the way:   *)
(* all but a first one about a key that says that it has gone.             *)
Acceptable == {n \in DOMAIN events :
    ~ /\ events[n].key \notin changedKeys
      /\ events[n].new = NoAddrs
      /\ P!FirstOf(events, n)}

(* Delivery's changes are the events accepted and the acceptable ones that *)
(* wait in the channel.  No announcement, no test and no reload.           *)
D == INSTANCE Delivery WITH changes <- Len(story) + Cardinality(Acceptable),
                            content <- 0, swaps <- 0, MaxSwaps <- 0, Extras <- {}

(* Those of the two components.  The bound on events cuts nothing off: an   *)
(* event needs a change, or a snapshot that lost interfaces, each of them  *)
(* gone and found again.                                                   *)
ASSUME EndToEndAssumption ==
    /\ IsFiniteSet(Interfaces)
    /\ Public \notin Interfaces /\ NoAddrs \notin Addrs
    /\ Enabled \subseteq P!Watchers
    /\ ChanCap \in Nat \ {0}
    /\ MaxChanges \in Nat /\ MaxFaults \in Nat /\ MaxAnswers \in Nat
    /\ Healthy \subseteq Notifiers
    /\ MaxRetries \in Nat
    /\ Startup \notin Nat /\ Test \notin Nat /\ Startup # Test
    /\ MaxEvents \in Nat
    /\ MaxEvents >= MaxChanges + 2 * MaxFaults * Cardinality(Interfaces) + MaxAnswers

pipeline == <<addrs, budget, wpc, prev, cur, todo, events, closed,
              epc, inHand, last, state, changedKeys>>
delivery == <<notifiers, taken, phase, job, status, inbox>>
vars     == <<pipeline, delivery, cancelled, story>>

Init == P!Init /\ story = <<>> /\ D!Init

----------------------------------------------------------------------------

(* Steps of the network, the watchers and the loop that are no business of *)
(* the deliver goroutines.                                                 *)
WatchStep ==
    /\ \/ \E i \in Interfaces : P!NetworkChange(i)
       \/ P!LocalStep
       \/ P!PublicStep
       \/ \E w \in P!Watchers : P!WatcherStop(w)
    /\ UNCHANGED <<delivery, story>>

LoopStep ==
    /\ P!CloseEvents \/ P!Drop \/ P!RunReturns
    /\ UNCHANGED <<delivery, story>>

(* Mutant: the event is dispatched in a goroutine of its own, and the loop *)
(* goes on at once.                                                        *)
AcceptGoesOn ==
    /\ epc = "recv" /\ events # <<>> /\ P!Changed(Head(events))
    /\ LET e == Head(events)
       IN /\ last' = [last EXCEPT ![e.key] = e.new]
          /\ state' = [state EXCEPT ![e.key] = e.new]
          /\ changedKeys' = changedKeys \cup {e.key}
          /\ inHand' = e
          /\ story' = Append(story, e)
    /\ events' = Tail(events)
    /\ taken' = taken + 1
    /\ phase' = [phase EXCEPT ![taken + 1] = "waiting"]
    /\ job' = [job EXCEPT ![taken + 1] =
                    [n \in Notifiers |-> IF n \in notifiers THEN D!Fresh ELSE D!NoJob]]
    /\ UNCHANGED <<addrs, budget, wpc, prev, cur, todo, closed, cancelled, epc,
                   notifiers, status, inbox>>

(* e.recordChange(e2); e.dispatch(ctx, e2) begins.  The bound, see above,   *)
(* is never reached.                                                       *)
Accept ==
    /\ taken < MaxEvents
    /\ P!Accept
    /\ story' = Append(story, Head(events))
    /\ D!LoopTakes(taken + 1)

(* wg.Wait() and dispatch return, the loop ranges on.                      *)
DispatchReturns ==
    /\ P!DispatchReturns
    /\ UNCHANGED story
    /\ D!DispatchReturns(taken)

Deliver(n) ==
    /\ UNCHANGED <<pipeline, story>>
    /\ \E v \in D!Events : D!JobStep(v, n)

Cancel == P!Cancel /\ UNCHANGED story /\ D!Cancel

Next ==
    \/ WatchStep
    \/ LoopStep
    \/ Accept
    \/ DispatchReturns
    \/ \E n \in Notifiers : Deliver(n)
    \/ Cancel

Spec == Init /\ [][Next]_vars

(* The goroutines' scheduling, as in the two components, except that no    *)
(* fairness makes dispatch return: its goroutines have to end first.       *)
Watching(A) == A /\ UNCHANGED <<delivery, story>>

Fairness ==
    /\ WF_vars(Watching(\E lost \in SUBSET Interfaces : P!LocalBaseline(lost)))
    /\ WF_vars(Watching(P!LocalTick({})))
    /\ WF_vars(Watching(\E i \in Interfaces : P!LocalSend(i)))
    /\ WF_vars(Watching(\E ip \in P!Lists : P!PublicBaseline(ip)))
    /\ WF_vars(Watching(P!PublicSend))
    /\ \A w \in P!Watchers : WF_vars(Watching(P!WatcherStop(w)))
    /\ WF_vars(LoopStep \/ Accept \/ DispatchReturns)
    /\ \A n \in Notifiers : WF_vars(Deliver(n))

FairSpec == Spec /\ Fairness

----------------------------------------------------------------------------
(* What the subscribers of a notifier have read.                           *)

Read(n) == [i \in DOMAIN inbox[n] |-> story[inbox[n][i]]]

(* The keys n's subscribers have heard of, the last list told of each, and *)
(* the message they got last (before the first one, what inHand is then).  *)
KnownTo(n) == {Read(n)[i].key : i \in DOMAIN inbox[n]}

LastTold(n, k) ==
    LET about == {i \in DOMAIN inbox[n] : Read(n)[i].key = k}
    IN IF about = {} THEN NoAddrs
       ELSE Read(n)[CHOOSE i \in about : \A j \in about : j <= i].new

ToldTo(n) == [k \in P!Keys |-> LastTold(n, k)]

NoteTo(n) ==
    IF inbox[n] = <<>> THEN [key |-> Public, old |-> NoAddrs, new |-> NoAddrs]
    ELSE Read(n)[Len(inbox[n])]

Reader(n) == INSTANCE Ledger WITH Keys <- P!Keys, Lists <- P!Lists,
                told <- ToldTo(n), known <- KnownTo(n), note <- NoteTo(n)

----------------------------------------------------------------------------
(* Properties.                                                             *)

(* From the interfaces to the inbox of a healthy notifier there is one     *)
(* unbroken ledger (module Ledger): every message is a change, and starts  *)
(* where the last one about that key ended.  Coalescing polls, a full      *)
(* channel, dropped events, another notifier's failures and retries, and   *)
(* the cancellation in the middle of a dispatch leave no gap, no message   *)
(* twice and none out of order.                                            *)
HealthyReadALedger ==
    /\ \A n \in Healthy : Reader(n)!Init
    /\ [][ \A n \in Healthy : inbox'[n] # inbox[n] => Reader(n)!Next ]_vars

(* When Run has returned, no goroutine of it is left that could still send *)
(* a message: the process may exit.                                        *)
NothingSentAfterReturn ==
    [][ epc = "returned" => inbox' = inbox ]_vars

(* The loop, the channel and the watchers behave as EventPipeline says     *)
(* with all its fairness, although here nothing but the ends of the        *)
(* deliver goroutines makes dispatch return: no notifier, however it       *)
(* fails, stops the engine for ever.                                       *)
PipelineImplemented == P!FairSpec

(* The deliver goroutines behave as Delivery says: the changes it takes    *)
(* from nowhere are the acceptable events in the channel, each is taken in *)
(* its turn, and none is taken that Delivery was not told of.              *)
DeliveryImplemented == D!FairSpec

(* If the service keeps running and the network settles, /status and the   *)
(* subscribers of every healthy notifier have in the end what the machine  *)
(* has, for every interface that ever changed: no change is stuck behind a *)
(* full channel, overwritten or lost, however slow other notifiers are.    *)
SubscribersCatchUp ==
    <>[](cancelled \/ \A i \in changedKeys \cap Interfaces :
            /\ state[i] = addrs[i]
            /\ \A n \in Healthy \cap notifiers : LastTold(n, i) = addrs[i])

(* Cancelling the context ends Run, in the middle of a dispatch and of a   *)
(* retry as well.                                                          *)
ShutdownCompletes == P!ShutdownCompletes

=============================================================================
