--------------------------- MODULE EventPipeline ---------------------------
(***************************************************************************)
(* The path of an address change through IPNotify: the local watcher and   *)
(* the public watcher poll, put events on one bounded Go channel, and      *)
(* Engine.Run takes them off, drops the ones its dedup map calls           *)
(* duplicates, records the rest and dispatches them one at a time.         *)
(*                                                                         *)
(* Goroutines: one per enabled watcher, the closer (wg.Wait; close) and    *)
(* Engine.Run's loop.  The context can be cancelled at any moment.         *)
(*                                                                         *)
(* A value of Lists is one sorted []string; NoAddrs is nil, which equal    *)
(* does not tell from the empty slice.  A key is a dedupKey: a local event *)
(* has its interface for key, a public one has Public.  Both watchers'     *)
(* locals are held in functions over the keys, so that "what the watcher   *)
(* of k has put on the channel so far" reads the same for both.            *)
(***************************************************************************)
EXTENDS Integers, Sequences

CONSTANTS
    Interfaces,     \* interface names the local watcher can report on
    Public,         \* the dedup key of the public watcher's events
    Addrs,          \* the non-empty address lists
    NoAddrs,        \* nil: no address
    Enabled,        \* the watchers the configuration turns on
    ChanCap,        \* capacity of the events channel (16 in the code)
    MaxChanges,     \* bound: how often the machine's addresses change
    MaxFaults,      \* bound: how many snapshots lose interfaces to OS errors
    MaxAnswers      \* bound: how many polls find another public IP

Watchers == {"local", "public"}

ASSUME PipelineAssumption ==
    /\ Public \notin Interfaces
    /\ NoAddrs \notin Addrs
    /\ Enabled \subseteq Watchers
    /\ ChanCap \in Nat \ {0}
    /\ MaxChanges \in Nat /\ MaxFaults \in Nat /\ MaxAnswers \in Nat

Keys  == Interfaces \cup {Public}
Lists == Addrs \cup {NoAddrs}
Event == [key : Keys, old : Lists, new : Lists]

WatcherOf(k) == IF k = Public THEN "public" ELSE "local"

VARIABLES
    addrs,      \* what the operating system would report, per interface
    budget,     \* what is left of the three bounds
    wpc,        \* where each watcher goroutine is
    prev,       \* local: prev of Watch;  public: Old of the event in hand
    cur,        \* local: cur of Watch;   public: current
    todo,       \* keys whose event the watcher has built and not yet sent
    events,     \* the channel
    closed,     \* close(events) has happened
    cancelled,  \* ctx is done
    epc,        \* where Engine.Run's loop is
    inHand,     \* the event the loop is dispatching
    last,       \* the loop's dedup map; a missing key reads as nil
    state,      \* Engine.state: Local[i] for an interface, Public for Public
    changedKeys \* the keys of Engine.state.LastChange

network == <<addrs, budget>>
watch   == <<wpc, prev, cur, todo>>
channel == <<events, closed>>
engine  == <<epc, inHand, last, state, changedKeys>>
vars    == <<network, watch, channel, cancelled, engine>>

TypeOK ==
    /\ addrs \in [Interfaces -> Lists]
    /\ budget \in [{"change", "fault", "answer"} -> Nat]
    /\ wpc \in [Watchers -> {"start", "idle", "sending", "done"}]
    /\ prev \in [Keys -> Lists]
    /\ cur \in [Keys -> Lists]
    /\ todo \subseteq Keys
    /\ events \in Seq(Event) /\ Len(events) <= ChanCap
    /\ closed \in BOOLEAN /\ cancelled \in BOOLEAN
    /\ epc \in {"recv", "dispatch", "returned"}
    /\ inHand \in Event
    /\ last \in [Keys -> Lists]
    /\ state \in [Keys -> Lists]
    /\ changedKeys \subseteq Keys

Init ==
    /\ addrs \in [Interfaces -> Lists]
    /\ budget = [b \in {"change", "fault", "answer"} |->
                    IF b = "change" THEN MaxChanges
                    ELSE IF b = "fault" THEN MaxFaults ELSE MaxAnswers]
    /\ wpc = [w \in Watchers |-> IF w \in Enabled THEN "start" ELSE "done"]
    /\ prev = [k \in Keys |-> NoAddrs]
    /\ cur = [k \in Keys |-> NoAddrs]
    /\ todo = {}
    /\ events = <<>> /\ closed = FALSE /\ cancelled = FALSE
    /\ epc = "recv"
    /\ inHand = [key |-> Public, old |-> NoAddrs, new |-> NoAddrs]
    /\ last = [k \in Keys |-> NoAddrs]
    /\ state = [k \in Keys |-> NoAddrs]
    /\ changedKeys = {}

Spend(b) == /\ budget[b] > 0
            /\ budget' = [budget EXCEPT ![b] = @ - 1]

----------------------------------------------------------------------------
(* The machine's network.                                                  *)

NetworkChange(i) ==
    /\ Spend("change")
    /\ \E l \in Lists \ {addrs[i]} : addrs' = [addrs EXCEPT ![i] = l]
    /\ UNCHANGED <<watch, channel, cancelled, engine>>

(* snapshot() with the interfaces of lost missing from its result: it      *)
(* returns an empty map when net.Interfaces fails and skips an interface   *)
(* whose Addrs fails.                                                      *)
Snapshot(lost) ==
    [k \in Keys |-> IF k \in Interfaces \ lost THEN addrs[k] ELSE NoAddrs]

TakeSnapshot(lost) == IF lost = {} THEN UNCHANGED budget ELSE Spend("fault")

----------------------------------------------------------------------------
(* The local watcher.                                                      *)

Goto(w, pc) == wpc' = [wpc EXCEPT ![w] = pc]

(* prev := w.snapshot(), before the first tick.                            *)
LocalBaseline(lost) ==
    /\ wpc["local"] = "start"
    /\ TakeSnapshot(lost)
    /\ cur' = [k \in Keys |-> IF k = Public THEN cur[k] ELSE Snapshot(lost)[k]]
    /\ prev' = [k \in Keys |-> IF k = Public THEN prev[k] ELSE Snapshot(lost)[k]]
    /\ Goto("local", "idle")
    /\ UNCHANGED <<addrs, todo, channel, cancelled, engine>>

(* The interfaces diff(prev, cur) has an event for.                        *)
Diff(before, now) == {i \in Interfaces : before[i] # now[i]}

(* A tick whose diff is not empty (with an empty diff nothing changes).    *)
LocalTick(lost) ==
    /\ wpc["local"] = "idle"
    /\ Diff(prev, Snapshot(lost)) # {}
    /\ TakeSnapshot(lost)
    /\ cur' = [k \in Keys |-> IF k = Public THEN cur[k] ELSE Snapshot(lost)[k]]
    /\ todo' = todo \cup Diff(prev, Snapshot(lost))
    /\ Goto("local", "sending")
    /\ UNCHANGED <<addrs, prev, channel, cancelled, engine>>

(* diff lists the interfaces of cur in map order, then those that have     *)
(* gone, in map order.                                                     *)
NextInDiff(i) ==
    /\ i \in todo
    /\ cur[i] = NoAddrs => \A j \in todo \cap Interfaces : cur[j] = NoAddrs

EventOf(k) == [key |-> k, old |-> prev[k], new |-> cur[k]]

(* Mutants: an unbounded queue; a send that gives up when the channel is   *)
(* full (select with a default case).                                      *)
PutUnbounded(k) == events' = Append(events, EventOf(k))

PutOrLose(k) == events' = IF Len(events) < ChanCap
                          THEN Append(events, EventOf(k)) ELSE events

(* out <- e: possible while the buffered channel has room.                 *)
Put(k) == /\ Len(events) < ChanCap
          /\ events' = Append(events, EventOf(k))

(* Mutant: the loop forgets prev = cur.                                    *)
LocalSendKeepsPrev(i) ==
    /\ wpc["local"] = "sending"
    /\ NextInDiff(i)
    /\ Put(i)
    /\ todo' = todo \ {i}
    /\ IF todo' \cap Interfaces = {} THEN Goto("local", "idle") ELSE UNCHANGED wpc
    /\ UNCHANGED <<network, prev, cur, closed, cancelled, engine>>

(* One send of the range loop; after the last one prev = cur.              *)
LocalSend(i) ==
    /\ wpc["local"] = "sending"
    /\ NextInDiff(i)
    /\ Put(i)
    /\ todo' = todo \ {i}
    /\ IF todo' \cap Interfaces = {}
       THEN /\ Goto("local", "idle")
            /\ prev' = [k \in Keys |-> IF k = Public THEN prev[k] ELSE cur[k]]
       ELSE UNCHANGED <<wpc, prev>>
    /\ UNCHANGED <<network, cur, closed, cancelled, engine>>

(* Mutant: the outer select has no ctx.Done() case.                        *)
WatcherStopInSendOnly(w) ==
    /\ cancelled
    /\ wpc[w] = "sending"
    /\ Goto(w, "done")
    /\ UNCHANGED <<network, prev, cur, todo, channel, cancelled, engine>>

(* case <-ctx.Done(), in either select; the events not sent are lost.      *)
WatcherStop(w) ==
    /\ cancelled
    /\ wpc[w] \in {"idle", "sending"}
    /\ Goto(w, "done")
    /\ UNCHANGED <<network, prev, cur, todo, channel, cancelled, engine>>

----------------------------------------------------------------------------
(* The public watcher.  What resolve answers is the environment's choice:  *)
(* the vote among the sources is module PublicWatcher's subject.           *)

(* The baseline: resolve() may fail, and then current stays "".  A lookup   *)
(* begun under a cancelled context fails, and one that ended just before   *)
(* the cancellation is one that ended before it: the result is local.      *)
PublicBaseline(ip) ==
    /\ wpc["public"] = "start"
    /\ cancelled => ip = NoAddrs
    /\ cur' = [cur EXCEPT ![Public] = ip]
    /\ Goto("public", "idle")
    /\ UNCHANGED <<network, prev, todo, channel, cancelled, engine>>

(* A tick that resolves another address (a failed lookup, or the address   *)
(* already known, changes nothing).  current moves before the send.        *)
PublicTick(ip) ==
    /\ wpc["public"] = "idle"
    /\ ~cancelled
    /\ ip # cur[Public]
    /\ Spend("answer")
    /\ prev' = [prev EXCEPT ![Public] = cur[Public]]
    /\ cur' = [cur EXCEPT ![Public] = ip]
    /\ todo' = todo \cup {Public}
    /\ Goto("public", "sending")
    /\ UNCHANGED <<addrs, channel, cancelled, engine>>

PublicSend ==
    /\ wpc["public"] = "sending"
    /\ Put(Public)
    /\ todo' = todo \ {Public}
    /\ Goto("public", "idle")
    /\ UNCHANGED <<network, prev, cur, closed, cancelled, engine>>

----------------------------------------------------------------------------
(* Engine.Run.                                                             *)

(* Mutant: the channel is closed as soon as one watcher has exited.        *)
CloseEventsEarly ==
    /\ ~closed
    /\ \E w \in Watchers : wpc[w] = "done"
    /\ closed' = TRUE
    /\ UNCHANGED <<network, watch, events, cancelled, engine>>

(* The closer goroutine: wg.Wait() over the watchers, then close(events).  *)
CloseEvents ==
    /\ ~closed
    /\ \A w \in Watchers : wpc[w] = "done"
    /\ closed' = TRUE
    /\ UNCHANGED <<network, watch, events, cancelled, engine>>

(* Mutant: the event is compared by its Old side.                          *)
ChangedByOld(e) == last[e.key] # e.old

(* changed(last, e)                                                        *)
Changed(e) == last[e.key] # e.new

(* for e2 := range events { if !changed(last, e2) { continue }; ... }      *)
Drop ==
    /\ epc = "recv" /\ events # <<>>
    /\ ~Changed(Head(events))
    /\ events' = Tail(events)
    /\ UNCHANGED <<network, watch, closed, cancelled, engine>>

(* Mutants: recordChange ignores an empty New; changed forgets to store.   *)
AcceptKeepsGone ==
    /\ epc = "recv" /\ events # <<>>
    /\ LET e == Head(events)
       IN /\ Changed(e)
          /\ last' = [last EXCEPT ![e.key] = e.new]
          /\ state' = IF e.new = NoAddrs THEN state ELSE [state EXCEPT ![e.key] = e.new]
          /\ changedKeys' = changedKeys \cup {e.key}
          /\ inHand' = e
    /\ events' = Tail(events)
    /\ epc' = "dispatch"
    /\ UNCHANGED <<network, watch, closed, cancelled>>

AcceptForgetsLast ==
    /\ epc = "recv" /\ events # <<>>
    /\ LET e == Head(events)
       IN /\ Changed(e)
          /\ state' = [state EXCEPT ![e.key] = e.new]
          /\ changedKeys' = changedKeys \cup {e.key}
          /\ inHand' = e
    /\ events' = Tail(events)
    /\ epc' = "dispatch"
    /\ UNCHANGED <<network, watch, closed, cancelled, last>>

(* ... and otherwise last moves, recordChange runs and dispatch begins.    *)
Accept ==
    /\ epc = "recv" /\ events # <<>>
    /\ LET e == Head(events)
       IN /\ Changed(e)
          /\ last' = [last EXCEPT ![e.key] = e.new]
          /\ state' = [state EXCEPT ![e.key] = e.new]
          /\ changedKeys' = changedKeys \cup {e.key}
          /\ inHand' = e
    /\ events' = Tail(events)
    /\ epc' = "dispatch"
    /\ UNCHANGED <<network, watch, closed, cancelled>>

(* dispatch returns when every deliver goroutine has (module Delivery).    *)
DispatchReturns ==
    /\ epc = "dispatch"
    /\ epc' = "recv"
    /\ UNCHANGED <<network, watch, channel, cancelled, inHand, last, state, changedKeys>>

(* range ends when the channel is closed and drained.                      *)
RunReturns ==
    /\ epc = "recv" /\ events = <<>> /\ closed
    /\ epc' = "returned"
    /\ UNCHANGED <<network, watch, channel, cancelled, inHand, last, state, changedKeys>>

Cancel ==
    /\ ~cancelled
    /\ cancelled' = TRUE
    /\ UNCHANGED <<network, watch, channel, engine>>

----------------------------------------------------------------------------

LocalStep ==
    \/ \E lost \in SUBSET Interfaces : LocalBaseline(lost) \/ LocalTick(lost)
    \/ \E i \in Interfaces : LocalSend(i)

PublicStep ==
    \/ \E ip \in Lists : PublicBaseline(ip)
    \/ \E ip \in Addrs : PublicTick(ip)
    \/ PublicSend

EngineStep == CloseEvents \/ Drop \/ Accept \/ DispatchReturns \/ RunReturns

Next ==
    \/ \E i \in Interfaces : NetworkChange(i)
    \/ LocalStep
    \/ PublicStep
    \/ \E w \in Watchers : WatcherStop(w)
    \/ EngineStep
    \/ Cancel

Spec == Init /\ [][Next]_vars

(* Scheduling: a goroutine that can go on does.  A ticker fires again and  *)
(* again, so a lasting difference is polled; a select whose ctx.Done()     *)
(* case stays ready takes it in the end; dispatch returns because each     *)
(* attempt has a timeout (module Delivery).  Nothing is assumed of the     *)
(* network, of what the public sources answer, or of Cancel.               *)
Fairness ==
    /\ WF_vars(\E lost \in SUBSET Interfaces : LocalBaseline(lost))
    /\ WF_vars(LocalTick({}))
    /\ WF_vars(\E i \in Interfaces : LocalSend(i))
    /\ WF_vars(\E ip \in Lists : PublicBaseline(ip))
    /\ WF_vars(PublicSend)
    /\ \A w \in Watchers : WF_vars(WatcherStop(w))
    /\ WF_vars(EngineStep)

FairSpec == Spec /\ Fairness

----------------------------------------------------------------------------
(* Why the changes reported for a key form one unbroken chain.             *)

(* What the watcher of k has put on the channel so far.                    *)
Sent == [k \in Keys |-> IF k \in todo THEN prev[k] ELSE cur[k]]

Slots(q) == 1 .. Len(q)

(* n is the first, the last event of its key in q; m is the one before n.  *)
FirstOf(q, n) == \A m \in Slots(q) : q[m].key = q[n].key => m >= n
LastOf(q, n)  == \A m \in Slots(q) : q[m].key = q[n].key => m <= n
Adjacent(q, m, n) ==
    /\ m < n
    /\ q[m].key = q[n].key
    /\ \A j \in Slots(q) : q[j].key = q[n].key => j <= m \/ j >= n

Has(q, k) == \E n \in Slots(q) : q[n].key = k

(* In q, every event is a change and starts where the one before it ended. *)
Linked(q) ==
    /\ \A n \in Slots(q) : q[n].old # q[n].new
    /\ \A m, n \in Slots(q) : Adjacent(q, m, n) => q[m].new = q[n].old

(* The last event of a key in q brings its subscribers up to sent.         *)
EndsAt(q, sent) == \A n \in Slots(q) : LastOf(q, n) => q[n].new = sent[q[n].key]

(* For the keys of known, q takes over from what base says.                *)
StartsAt(q, base, known, sent) ==
    /\ \A n \in Slots(q) :
            FirstOf(q, n) /\ q[n].key \in known => q[n].old = base[q[n].key]
    /\ \A k \in known : ~Has(q, k) => sent[k] = base[k]

(* A watcher that is not in its send loop owes nothing, and one that has   *)
(* no baseline has sent nothing.                                           *)
WatchersInv ==
    /\ \A k \in Keys : wpc[WatcherOf(k)] \in {"start", "idle"} => k \notin todo
    /\ \A i \in Interfaces : wpc["local"] \in {"start", "idle"} => prev[i] = cur[i]
    /\ wpc["public"] = "sending" => Public \in todo
    /\ \A k \in todo : prev[k] # cur[k]
    /\ \A k \in Keys : wpc[WatcherOf(k)] = "start"
                        => k \notin changedKeys /\ ~Has(events, k)

EngineInv ==
    /\ state = last
    /\ \A k \in Keys \ changedKeys : last[k] = NoAddrs

(* The chain, from the dedup map through the channel to the watchers: for  *)
(* every key seen, last[k] is the Old of its first queued event, each New  *)
(* the Old of the next, and the last New what the watcher has sent.  No    *)
(* coalescing in the watchers, back-pressure of the channel or dropping in *)
(* the loop breaks it (local.go Watch and diff, public.go Watch, changed). *)
Chain ==
    /\ WatchersInv
    /\ EngineInv
    /\ Linked(events)
    /\ EndsAt(events, Sent)
    /\ StartsAt(events, last, changedKeys, Sent)

----------------------------------------------------------------------------
(* Properties.                                                             *)

(* The channel is closed only when no watcher can send any more (a send on *)
(* a closed channel panics), and Run returns only when every event that    *)
(* was sent has been dealt with.                                           *)
OrderlyShutdown ==
    /\ closed => \A w \in Watchers : wpc[w] = "done"
    /\ epc = "returned" => closed /\ events = <<>>

(* When nothing is on its way, Snapshot shows for every key that ever      *)
(* changed what the watcher of that key saw last: recordChange, including  *)
(* its delete of an interface without addresses, never falls behind.       *)
StatusAgreesWhenDrained ==
    events = <<>> => \A k \in changedKeys \ todo : state[k] = cur[k]

(* The loop drops an event only when it is the disappearance of an         *)
(* interface no event was accepted for: no other change is ever taken for  *)
(* a duplicate.  (What that one case costs is EveryDropWasSeen.)           *)
OnlyFirstLossDropped ==
    [][ Len(events') < Len(events) /\ epc' = "recv"
        => /\ Head(events).new = NoAddrs
           /\ Head(events).key \notin changedKeys ]_vars

(* The engine, whatever the watchers, the channel and the dedup map do,    *)
(* tells subscribers an unbroken story: every change it dispatches starts  *)
(* where the last one it told about that key ended (module Ledger).        *)
L == INSTANCE Ledger WITH told <- state, known <- changedKeys, note <- inHand

ToldInOrder == L!Spec

(* Cancelling the context ends Run: every watcher leaves its select, also  *)
(* one blocked on a full channel, the channel is closed and drained.       *)
ShutdownCompletes == cancelled ~> (epc = "returned")

(* changed's comment has it that the dedup map guards against duplicates,  *)
(* "relative to what the engine has already seen" (engine.go:291): an      *)
(* event is dropped only if the engine has seen its key.  The code does    *)
(* not: a missing key reads as nil, so the first event of an interface is  *)
(* dropped when it says that the interface has gone.                       *)
EveryDropWasSeen ==
    [][ Len(events') < Len(events) /\ epc' = "recv"
        => Head(events).key \in changedKeys ]_vars

=============================================================================
