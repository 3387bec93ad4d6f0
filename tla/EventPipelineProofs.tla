------------------------ MODULE EventPipelineProofs ------------------------
(***************************************************************************)
(* Theorems about EventPipeline, for every set of interfaces and address   *)
(* lists, every channel capacity and every bound.                          *)
(***************************************************************************)
EXTENDS EventPipeline, SequenceTheorems, TLAPS

USE DEF Watchers, Keys, Lists

----------------------------------------------------------------------------
(* Type correctness.                                                       *)

LEMMA InitTypeOK == ASSUME PipelineAssumption, Init PROVE TypeOK
<1>1. addrs \in [Interfaces -> Lists] /\ budget \in [{"change", "fault", "answer"} -> Nat]
  BY DEF PipelineAssumption, Init
<1>2. wpc \in [Watchers -> {"start", "idle", "sending", "done"}]
  BY DEF Init
<1>3. prev \in [Keys -> Lists] /\ cur \in [Keys -> Lists] /\ last \in [Keys -> Lists]
      /\ state \in [Keys -> Lists]
  BY DEF Init
<1>4. events \in Seq(Event) /\ Len(events) <= ChanCap
  BY DEF Init, PipelineAssumption
<1>5. inHand \in Event
  BY DEF Init, Event
<1> QED
  BY <1>1, <1>2, <1>3, <1>4, <1>5 DEF Init, TypeOK

LEMMA EventOfType ==
    ASSUME TypeOK, NEW k \in Keys
    PROVE  EventOf(k) \in Event
BY DEF EventOf, TypeOK, Event

(* A send keeps the channel a bounded sequence of events.                  *)
LEMMA PutType ==
    ASSUME PipelineAssumption, TypeOK, NEW k \in Keys, Put(k)
    PROVE  events' \in Seq(Event) /\ Len(events') <= ChanCap
<1>1. EventOf(k) \in Event
  BY EventOfType
<1> QED
  BY <1>1 DEF Put, TypeOK, PipelineAssumption

LEMMA HeadTail ==
    ASSUME TypeOK, events # <<>>
    PROVE  /\ Head(events) \in Event
           /\ Tail(events) \in Seq(Event)
           /\ Len(Tail(events)) = Len(events) - 1
           /\ Len(events) \in Nat \ {0}
BY HeadTailProperties, EmptySeq, LenProperties DEF TypeOK

LEMMA SnapshotType ==
    ASSUME TypeOK, NEW lost \in SUBSET Interfaces
    PROVE  Snapshot(lost) \in [Keys -> Lists]
BY DEF TypeOK, Snapshot

LEMMA StepTypeOK ==
    ASSUME PipelineAssumption, TypeOK, [Next]_vars
    PROVE  TypeOK'
<1>1. ASSUME NEW i \in Interfaces, NetworkChange(i) PROVE TypeOK'
  BY <1>1 DEF TypeOK, NetworkChange, Spend, watch, channel, engine
<1>2. ASSUME NEW lost \in SUBSET Interfaces, LocalBaseline(lost) PROVE TypeOK'
  BY <1>2, SnapshotType DEF TypeOK, LocalBaseline, TakeSnapshot, Spend, Goto, channel, engine
<1>3. ASSUME NEW lost \in SUBSET Interfaces, LocalTick(lost) PROVE TypeOK'
  BY <1>3, SnapshotType DEF TypeOK, LocalTick, Diff, TakeSnapshot, Spend, Goto, channel, engine
<1>4. ASSUME NEW i \in Interfaces, LocalSend(i) PROVE TypeOK'
  <2>1. events' \in Seq(Event) /\ Len(events') <= ChanCap
    BY <1>4, PutType DEF LocalSend
  <2> QED
    BY <1>4, <2>1 DEF TypeOK, LocalSend, Goto, network, engine
<1>5. ASSUME NEW ip \in Lists, PublicBaseline(ip) PROVE TypeOK'
  BY <1>5 DEF TypeOK, PublicBaseline, Goto, network, channel, engine
<1>6. ASSUME NEW ip \in Addrs, PublicTick(ip) PROVE TypeOK'
  BY <1>6 DEF TypeOK, PublicTick, Spend, Goto, channel, engine
<1>7. ASSUME PublicSend PROVE TypeOK'
  <2>1. events' \in Seq(Event) /\ Len(events') <= ChanCap
    BY <1>7, PutType DEF PublicSend
  <2> QED
    BY <1>7, <2>1 DEF TypeOK, PublicSend, Goto, network, engine
<1>8. ASSUME NEW w \in Watchers, WatcherStop(w) PROVE TypeOK'
  BY <1>8 DEF TypeOK, WatcherStop, Goto, network, channel, engine
<1>9. ASSUME CloseEvents PROVE TypeOK'
  BY <1>9 DEF TypeOK, CloseEvents, network, watch, engine
<1>10. ASSUME Drop PROVE TypeOK'
  BY <1>10, HeadTail DEF TypeOK, Drop, network, watch, engine
<1>11. ASSUME Accept PROVE TypeOK'
  <2>1. Head(events).key \in Keys /\ Head(events).new \in Lists
    BY <1>11, HeadTail DEF Accept, Event
  <2> QED
    BY <1>11, <2>1, HeadTail DEF TypeOK, Accept, network, watch
<1>12. ASSUME DispatchReturns PROVE TypeOK'
  BY <1>12 DEF TypeOK, DispatchReturns, network, watch, channel
<1>13. ASSUME RunReturns PROVE TypeOK'
  BY <1>13 DEF TypeOK, RunReturns, network, watch, channel
<1>14. ASSUME Cancel PROVE TypeOK'
  BY <1>14 DEF TypeOK, Cancel, network, watch, channel, engine
<1>15. ASSUME UNCHANGED vars PROVE TypeOK'
  BY <1>15 DEF TypeOK, vars, network, watch, channel, engine
<1> QED
  BY <1>1, <1>2, <1>3, <1>4, <1>5, <1>6, <1>7, <1>8, <1>9, <1>10, <1>11,
     <1>12, <1>13, <1>14, <1>15
  DEF Next, LocalStep, PublicStep, EngineStep

(* Every variable keeps its type; the channel never holds more than        *)
(* ChanCap events, however many watchers send.                             *)
THEOREM TypeCorrect == Spec => []TypeOK
<1>1. Init => TypeOK
  BY InitTypeOK, PipelineAssumption
<1>2. TypeOK /\ [Next]_vars => TypeOK'
  BY StepTypeOK, PipelineAssumption
<1> QED
  BY <1>1, <1>2, PTL DEF Spec

----------------------------------------------------------------------------
(* How the chain of a channel changes, stated of any sequence of events.   *)

(* A send: the event starts where the watcher stood.                       *)
LEMMA AppendChain ==
    ASSUME NEW q \in Seq(Event), NEW e \in Event,
           NEW base, NEW known, NEW sent, NEW sent2,
           e.old # e.new, e.old = sent[e.key], sent2[e.key] = e.new,
           \A k \in Keys \ {e.key} : sent2[k] = sent[k],
           known \subseteq Keys,
           Linked(q), EndsAt(q, sent), StartsAt(q, base, known, sent)
    PROVE  /\ Linked(Append(q, e))
           /\ EndsAt(Append(q, e), sent2)
           /\ StartsAt(Append(q, e), base, known, sent2)
<1> DEFINE r == Append(q, e)
           N == Len(q)
<1>1. /\ N \in Nat /\ Len(r) = N + 1
      /\ \A n \in 1..N : r[n] = q[n] /\ r[n].key \in Keys
      /\ r[N+1] = e /\ e.key \in Keys
  <2>1. N \in Nat /\ Len(r) = N + 1 /\ r[N+1] = e /\ \A n \in 1..N : r[n] = q[n]
    BY AppendProperties, LenProperties
  <2>2. e.key \in Keys
    BY DEF Event
  <2>3. \A n \in 1..N : q[n] \in Event
    BY LenProperties
  <2>4. \A n \in 1..N : q[n].key \in Keys
    BY <2>3 DEF Event
  <2> QED
    BY <2>1, <2>2, <2>4
<1> HIDE DEF r, N
<1>2. Linked(r)
  <2>1. \A n \in Slots(r) : r[n].old # r[n].new
    BY <1>1 DEF Linked, Slots, N
  <2>2. ASSUME NEW m \in Slots(r), NEW n \in Slots(r), Adjacent(r, m, n)
        PROVE  r[m].new = r[n].old
    <3>1. CASE n = N + 1
      <4>1. m \in Slots(q) /\ r[m] = q[m] /\ q[m].key = e.key
        BY <1>1, <2>2, <3>1 DEF Adjacent, Slots, N
      <4>2. LastOf(q, m)
        BY <1>1, <2>2, <3>1, <4>1 DEF Adjacent, LastOf, Slots, N
      <4> QED
        BY <1>1, <3>1, <4>1, <4>2 DEF EndsAt
    <3>2. CASE n # N + 1
      <4>1. m \in Slots(q) /\ n \in Slots(q) /\ r[m] = q[m] /\ r[n] = q[n]
        BY <1>1, <2>2, <3>2 DEF Adjacent, Slots, N
      <4>2. Adjacent(q, m, n)
        BY <1>1, <2>2, <4>1 DEF Adjacent, Slots, N
      <4> QED
        BY <4>1, <4>2 DEF Linked
    <3> QED
      BY <3>1, <3>2
  <2> QED
    BY <2>1, <2>2 DEF Linked
<1>3. EndsAt(r, sent2)
  <2>1. SUFFICES ASSUME NEW n \in Slots(r), LastOf(r, n)
                 PROVE  r[n].new = sent2[r[n].key]
    BY DEF EndsAt
  <2>2. CASE n = N + 1
    BY <1>1, <2>2
  <2>3. CASE n # N + 1
    <3>1. n \in Slots(q) /\ r[n] = q[n] /\ r[n].key \in Keys
      BY <1>1, <2>1, <2>3 DEF Slots, N
    <3>2. r[n].key # e.key
      BY <1>1, <2>1, <2>3, <3>1 DEF LastOf, Slots, N
    <3>3. LastOf(q, n)
      BY <1>1, <2>1, <3>1 DEF LastOf, Slots, N
    <3> QED
      BY <3>1, <3>2, <3>3 DEF EndsAt
  <2> QED
    BY <2>2, <2>3
<1>4. StartsAt(r, base, known, sent2)
  <2>1. ASSUME NEW n \in Slots(r), FirstOf(r, n), r[n].key \in known
        PROVE  r[n].old = base[r[n].key]
    <3>1. CASE n = N + 1
      <4>1. ~Has(q, e.key)
        BY <1>1, <2>1, <3>1 DEF FirstOf, Has, Slots, N
      <4> QED
        BY <1>1, <2>1, <3>1, <4>1 DEF StartsAt
    <3>2. CASE n # N + 1
      <4>1. n \in Slots(q) /\ r[n] = q[n]
        BY <1>1, <2>1, <3>2 DEF Slots, N
      <4>2. FirstOf(q, n)
        BY <1>1, <2>1, <4>1 DEF FirstOf, Slots, N
      <4> QED
        BY <2>1, <4>1, <4>2 DEF StartsAt
    <3> QED
      BY <3>1, <3>2
  <2>2. ASSUME NEW k \in known, ~Has(r, k)
        PROVE  sent2[k] = base[k]
    <3>1. k # e.key /\ ~Has(q, k)
      BY <1>1, <2>2 DEF Has, Slots, N
    <3> QED
      BY <2>2, <3>1 DEF StartsAt
  <2> QED
    BY <2>1, <2>2 DEF StartsAt
<1> QED
  BY <1>2, <1>3, <1>4 DEF r

(* A receive leaves the rest of the channel linked, ending where it did.   *)
LEMMA TailFacts ==
    ASSUME NEW q \in Seq(Event), q # <<>>
    PROVE  /\ Len(q) \in Nat \ {0} /\ Len(Tail(q)) = Len(q) - 1
           /\ \A n \in Slots(Tail(q)) : n + 1 \in Slots(q) /\ Tail(q)[n] = q[n+1]
           /\ 1 \in Slots(q) /\ q[1] = Head(q) /\ Head(q) \in Event
           /\ \A n \in Slots(q) : q[n] \in Event /\ q[n].key \in Keys
<1>1. Len(q) \in Nat \ {0} /\ Len(Tail(q)) = Len(q) - 1 /\ Head(q) \in Event
  BY HeadTailProperties, EmptySeq
<1>2. \A n \in 1 .. Len(Tail(q)) : Tail(q)[n] = q[n+1]
  BY HeadTailProperties
<1>3. q[1] = Head(q)
  BY <1>1
<1>4. \A n \in Slots(q) : q[n] \in Event
  BY LenProperties DEF Slots
<1>5. \A n \in Slots(q) : q[n].key \in Keys
  BY <1>4 DEF Event
<1> QED
  BY <1>1, <1>2, <1>3, <1>4, <1>5 DEF Slots

LEMMA TailChain ==
    ASSUME NEW q \in Seq(Event), q # <<>>, NEW sent,
           Linked(q), EndsAt(q, sent)
    PROVE  Linked(Tail(q)) /\ EndsAt(Tail(q), sent)
<1> DEFINE r == Tail(q)
<1>1. /\ Len(q) \in Nat \ {0} /\ Len(r) = Len(q) - 1
      /\ \A n \in Slots(r) : n + 1 \in Slots(q) /\ r[n] = q[n+1]
  BY TailFacts
<1> HIDE DEF r
<1>2. ASSUME NEW m \in Slots(r), NEW n \in Slots(r), Adjacent(r, m, n)
      PROVE  r[m].new = r[n].old
  <2>1. ASSUME NEW j \in Slots(q), q[j].key = q[n+1].key
        PROVE  j <= m + 1 \/ j >= n + 1
    <3>1. CASE j = 1
      BY <3>1, <1>1 DEF Slots
    <3>2. CASE j # 1
      <4>1. j - 1 \in Slots(r) /\ r[j-1] = q[j]
        BY <1>1, <3>2 DEF Slots
      <4> QED
        BY <1>1, <1>2, <2>1, <4>1 DEF Adjacent, Slots
    <3> QED
      BY <3>1, <3>2
  <2>2. Adjacent(q, m + 1, n + 1)
    BY <1>1, <1>2, <2>1 DEF Adjacent, Slots
  <2> QED
    BY <1>1, <2>2 DEF Linked
<1>3. ASSUME NEW n \in Slots(r), LastOf(r, n)
      PROVE  r[n].new = sent[r[n].key]
  <2>1. ASSUME NEW j \in Slots(q), q[j].key = q[n+1].key
        PROVE  j <= n + 1
    <3>1. CASE j = 1
      BY <3>1, <1>1 DEF Slots
    <3>2. CASE j # 1
      <4>1. j - 1 \in Slots(r) /\ r[j-1] = q[j]
        BY <1>1, <3>2 DEF Slots
      <4> QED
        BY <1>1, <1>3, <2>1, <4>1 DEF LastOf, Slots
    <3> QED
      BY <3>1, <3>2
  <2>2. LastOf(q, n + 1)
    BY <2>1 DEF LastOf
  <2> QED
    BY <1>1, <2>2 DEF EndsAt
<1>4. \A n \in Slots(r) : r[n].old # r[n].new
  BY <1>1 DEF Linked
<1>5. Linked(r)
  BY <1>2, <1>4 DEF Linked
<1>6. EndsAt(r, sent)
  BY <1>3 DEF EndsAt
<1> QED
  BY <1>5, <1>6 DEF r

(* Taking the head e, as seen by another key: nothing moves.               *)
LEMMA TailOther ==
    ASSUME NEW q \in Seq(Event), q # <<>>, NEW k \in Keys, Head(q).key # k
    PROVE  /\ Has(Tail(q), k) <=> Has(q, k)
           /\ \A n \in Slots(Tail(q)) :
                  Tail(q)[n].key = k /\ FirstOf(Tail(q), n) => FirstOf(q, n + 1)
<1> DEFINE r == Tail(q)
<1>1. /\ Len(q) \in Nat \ {0} /\ Len(r) = Len(q) - 1
      /\ \A n \in Slots(r) : n + 1 \in Slots(q) /\ r[n] = q[n+1]
      /\ q[1].key # k
  BY TailFacts
<1> HIDE DEF r
<1>2. \A j \in Slots(q) : q[j].key = k => j - 1 \in Slots(r) /\ r[j-1] = q[j]
  BY <1>1 DEF Slots
<1>3. Has(r, k) <=> Has(q, k)
  BY <1>1, <1>2 DEF Has
<1>4. ASSUME NEW n \in Slots(r), r[n].key = k, FirstOf(r, n)
      PROVE  FirstOf(q, n + 1)
  <2>1. ASSUME NEW j \in Slots(q), q[j].key = q[n+1].key
        PROVE  j >= n + 1
    <3>1. j - 1 \in Slots(r) /\ r[j-1].key = r[n].key
      BY <1>1, <1>2, <1>4, <2>1
    <3>2. j - 1 >= n
      BY <1>4, <3>1 DEF FirstOf
    <3> QED
      BY <3>2, <1>1 DEF Slots
  <2> QED
    BY <2>1 DEF FirstOf
<1> QED
  BY <1>3, <1>4 DEF r

(* Taking the head e, as seen by its own key: the next one starts from it, *)
(* and without a next one it is what was sent last.                        *)
LEMMA TailOwn ==
    ASSUME NEW q \in Seq(Event), q # <<>>, NEW sent, Linked(q), EndsAt(q, sent)
    PROVE  /\ \A n \in Slots(Tail(q)) :
                  Tail(q)[n].key = Head(q).key /\ FirstOf(Tail(q), n)
                     => Tail(q)[n].old = Head(q).new
           /\ ~Has(Tail(q), Head(q).key) => sent[Head(q).key] = Head(q).new
<1> DEFINE r == Tail(q)
           e == Head(q)
<1>1. /\ Len(q) \in Nat \ {0} /\ Len(r) = Len(q) - 1
      /\ \A n \in Slots(r) : n + 1 \in Slots(q) /\ r[n] = q[n+1]
      /\ 1 \in Slots(q) /\ q[1] = e
  BY TailFacts
<1> HIDE DEF r, e
<1>2. ASSUME NEW n \in Slots(r), r[n].key = e.key, FirstOf(r, n)
      PROVE  r[n].old = e.new
  <2>1. ASSUME NEW j \in Slots(q), q[j].key = q[n+1].key
        PROVE  j <= 1 \/ j >= n + 1
    <3>1. CASE j = 1
      BY <3>1
    <3>2. CASE j # 1
      <4>1. j - 1 \in Slots(r) /\ r[j-1] = q[j]
        BY <1>1, <3>2 DEF Slots
      <4> QED
        BY <1>1, <1>2, <2>1, <4>1 DEF FirstOf, Slots
    <3> QED
      BY <3>1, <3>2
  <2>2. Adjacent(q, 1, n + 1)
    BY <1>1, <1>2, <2>1 DEF Adjacent, Slots
  <2> QED
    BY <1>1, <2>2 DEF Linked
<1>3. ASSUME ~Has(r, e.key) PROVE sent[e.key] = e.new
  <2>1. LastOf(q, 1)
    <3>1. SUFFICES ASSUME NEW j \in Slots(q), q[j].key = q[1].key, j # 1
                   PROVE  FALSE
      BY <1>1 DEF LastOf, Slots
    <3>2. j - 1 \in Slots(r) /\ r[j-1] = q[j]
      BY <1>1, <3>1 DEF Slots
    <3> QED
      BY <1>1, <1>3, <3>1, <3>2 DEF Has
  <2> QED
    BY <1>1, <2>1 DEF EndsAt
<1> QED
  BY <1>2, <1>3 DEF r, e

(* The watchers' sends and the loop's receives, in the state.              *)
LEMMA SendKeepsChain ==
    ASSUME PipelineAssumption, TypeOK, Chain, NEW k \in todo, Put(k),
           Sent' = [Sent EXCEPT ![k] = cur[k]]
    PROVE  /\ Linked(events') /\ EndsAt(events', Sent')
           /\ StartsAt(events', last, changedKeys, Sent')
<1>1. EventOf(k) \in Event /\ k \in Keys
  BY EventOfType DEF TypeOK
<1>2. /\ EventOf(k).key = k /\ EventOf(k).old = prev[k] /\ EventOf(k).new = cur[k]
      /\ prev[k] # cur[k] /\ Sent[k] = prev[k]
  BY <1>1 DEF EventOf, Chain, WatchersInv, Sent
<1>3. Sent \in [Keys -> Lists]
  BY DEF TypeOK, Sent
<1>4. Sent'[k] = cur[k] /\ \A j \in Keys \ {k} : Sent'[j] = Sent[j]
  BY <1>1, <1>3
<1>5. events \in Seq(Event) /\ changedKeys \subseteq Keys
      /\ Linked(events) /\ EndsAt(events, Sent)
      /\ StartsAt(events, last, changedKeys, Sent)
  BY DEF TypeOK, Chain
<1> HIDE DEF Sent, EventOf
<1> QED
  BY <1>1, <1>2, <1>4, <1>5, AppendChain DEF Put

LEMMA ReceiveKeepsChain ==
    ASSUME TypeOK, Chain, events # <<>>, events' = Tail(events),
           UNCHANGED <<prev, cur, todo>>,
           NEW e, e = Head(events),
           \/ e.key \notin changedKeys /\ UNCHANGED <<last, changedKeys>>
           \/ /\ last' = [last EXCEPT ![e.key] = e.new]
              /\ changedKeys' = changedKeys \cup {e.key}
    PROVE  /\ Linked(events') /\ EndsAt(events', Sent')
           /\ StartsAt(events', last', changedKeys', Sent')
           /\ \A k \in Keys : ~Has(events, k) => ~Has(events', k)
<1>1. /\ e \in Event /\ e.key \in Keys /\ events \in Seq(Event)
      /\ Linked(events) /\ EndsAt(events, Sent) /\ StartsAt(events, last, changedKeys, Sent)
      /\ last \in [Keys -> Lists] /\ changedKeys \subseteq Keys
  BY TailFacts DEF TypeOK, Chain, Event
<1>2. Sent' = Sent
  BY DEF Sent
<1> HIDE DEF Sent
<1>3. Linked(events') /\ EndsAt(events', Sent)
  BY <1>1, TailChain
<1>4. ASSUME NEW k \in Keys, k # e.key
      PROVE  /\ k \in changedKeys' <=> k \in changedKeys
             /\ last'[k] = last[k]
             /\ Has(events', k) <=> Has(events, k)
             /\ \A n \in Slots(events') : events'[n].key = k /\ FirstOf(events', n)
                                         => FirstOf(events, n + 1)
  <2>1. Has(events', k) <=> Has(events, k)
    BY <1>1, <1>4, TailOther
  <2>2. \A n \in Slots(events') : events'[n].key = k /\ FirstOf(events', n)
                                         => FirstOf(events, n + 1)
    BY <1>1, <1>4, TailOther
  <2> QED
    BY <1>1, <1>4, <2>1, <2>2
<1>5. e.key \in changedKeys' => last'[e.key] = e.new
  BY <1>1
<1>6. \A n \in Slots(events') : events'[n].key \in Keys
                              /\ n + 1 \in Slots(events) /\ events'[n] = events[n + 1]
  <2>1. \A n \in Slots(events') : n + 1 \in Slots(events) /\ events'[n] = events[n + 1]
    BY <1>1, TailFacts
  <2>2. \A n \in Slots(events) : events[n].key \in Keys
    BY <1>1, TailFacts
  <2> QED
    BY <2>1, <2>2
<1>7. ASSUME NEW n \in Slots(events'), FirstOf(events', n), events'[n].key \in changedKeys'
      PROVE  events'[n].old = last'[events'[n].key]
  <2>1. CASE events'[n].key = e.key
    BY <1>1, <1>5, <1>7, <2>1, TailOwn
  <2>2. CASE events'[n].key # e.key
    <3> DEFINE k == events'[n].key
    <3>1. /\ k \in Keys /\ k # e.key /\ k \in changedKeys' /\ n + 1 \in Slots(events)
          /\ events'[n] = events[n + 1]
      BY <1>6, <1>7, <2>2
    <3>2. k \in changedKeys /\ last'[k] = last[k] /\ FirstOf(events, n + 1)
      BY <1>4, <1>7, <3>1
    <3> QED
      BY <1>1, <3>1, <3>2 DEF StartsAt
  <2> QED
    BY <2>1, <2>2
<1>8. ASSUME NEW k \in changedKeys', ~Has(events', k)
      PROVE  Sent[k] = last'[k]
  <2>1. CASE k = e.key
    BY <1>1, <1>5, <1>8, <2>1, TailOwn
  <2>2. CASE k # e.key
    <3>1. k \in Keys
      BY <1>1, <1>8, <2>2
    <3> QED
      BY <1>1, <1>4, <1>8, <2>2, <3>1 DEF StartsAt
  <2> QED
    BY <2>1, <2>2
<1>9. StartsAt(events', last', changedKeys', Sent)
  BY <1>7, <1>8 DEF StartsAt
<1>10. \A k \in Keys : ~Has(events, k) => ~Has(events', k)
  BY <1>6 DEF Has
<1> QED
  BY <1>2, <1>3, <1>9, <1>10

(* The head of the channel, when its key was told about, is news: it       *)
(* starts at last, and so does not end there.                              *)
LEMMA HeadIsNews ==
    ASSUME TypeOK, Chain, events # <<>>, Head(events).key \in changedKeys
    PROVE  Head(events).old = last[Head(events).key] /\ Changed(Head(events))
<1>1. /\ 1 \in Slots(events) /\ events[1] = Head(events)
      /\ FirstOf(events, 1)
  BY TailFacts DEF TypeOK, FirstOf, Slots
<1>2. Head(events).old = last[Head(events).key]
  BY <1>1 DEF Chain, StartsAt
<1>3. Head(events).old # Head(events).new
  BY <1>1 DEF Chain, Linked
<1> QED
  BY <1>2, <1>3 DEF Changed

(* A step that leaves channel and engine alone and changes what is sent    *)
(* only for keys without history.                                          *)
LEMMA QuietStep ==
    ASSUME TypeOK, Chain, UNCHANGED <<events, last, state, changedKeys>>,
           \A k \in Keys : Sent'[k] = Sent[k] \/ (k \notin changedKeys /\ ~Has(events, k))
    PROVE  /\ EngineInv'
           /\ Linked(events') /\ EndsAt(events', Sent')
           /\ StartsAt(events', last', changedKeys', Sent')
<1>1. /\ changedKeys \subseteq Keys
      /\ \A n \in Slots(events) : events[n].key \in Keys /\ Has(events, events[n].key)
  <2>1. events # <<>> => \A n \in Slots(events) : events[n].key \in Keys
    BY TailFacts DEF TypeOK
  <2>2. events = <<>> => Slots(events) = {}
    BY DEF Slots
  <2> QED
    BY <2>1, <2>2 DEF Has, TypeOK
<1>2. EngineInv'
  BY DEF Chain, EngineInv
<1>3. Linked(events')
  BY DEF Chain
<1>4. EndsAt(events', Sent')
  <2>1. SUFFICES ASSUME NEW n \in Slots(events), LastOf(events, n)
                 PROVE  events[n].new = Sent'[events[n].key]
    BY DEF EndsAt
  <2>2. events[n].new = Sent[events[n].key]
    BY <2>1 DEF Chain, EndsAt
  <2> QED
    BY <1>1, <2>2
<1>5. StartsAt(events', last', changedKeys', Sent')
  <2>1. StartsAt(events, last, changedKeys, Sent)
    BY DEF Chain
  <2>2. \A k \in changedKeys : Sent'[k] = Sent[k]
    BY <1>1
  <2> HIDE DEF Sent
  <2> QED
    BY <2>1, <2>2 DEF StartsAt
<1> QED
  BY <1>2, <1>3, <1>4, <1>5

----------------------------------------------------------------------------
(* The chain is inductive.                                                 *)

LEMMA InitChain == ASSUME PipelineAssumption, Init PROVE Chain
<1>1. WatchersInv
  BY DEF Init, WatchersInv, Has, Slots, WatcherOf
<1>2. EngineInv
  BY DEF Init, EngineInv
<1>3. Slots(events) = {} /\ changedKeys = {}
  BY DEF Init, Slots
<1> QED
  BY <1>1, <1>2, <1>3 DEF Chain, Linked, EndsAt, StartsAt

LEMMA StepChain ==
    ASSUME PipelineAssumption, TypeOK, Chain, [Next]_vars
    PROVE  Chain'
<1> USE DEF WatcherOf
<1> DEFINE Quiet == /\ UNCHANGED <<events, last, state, changedKeys>>
                    /\ \A k \in Keys :
                          Sent'[k] = Sent[k] \/ (k \notin changedKeys /\ ~Has(events, k))
<1>0. ASSUME Quiet, WatchersInv' PROVE Chain'
  BY <1>0, QuietStep DEF Chain
<1>1. ASSUME UNCHANGED watch, UNCHANGED events,
             UNCHANGED <<last, state, changedKeys>>
      PROVE  Chain'
  <2>1. Quiet
    BY <1>1 DEF watch, Sent
  <2>2. WatchersInv'
    BY <1>1 DEF watch, Chain, WatchersInv
  <2> QED
    BY <1>0, <2>1, <2>2
<1>2. ASSUME NEW lost \in SUBSET Interfaces, LocalBaseline(lost) PROVE Chain'
  <2>1. Quiet
    BY <1>2 DEF LocalBaseline, channel, engine, Chain, WatchersInv, Sent, TypeOK
  <2>2. WatchersInv'
    BY <1>2, PipelineAssumption
    DEF LocalBaseline, Goto, channel, engine, Chain, WatchersInv, TypeOK, PipelineAssumption
  <2> QED
    BY <1>0, <2>1, <2>2
<1>3. ASSUME NEW lost \in SUBSET Interfaces, LocalTick(lost) PROVE Chain'
  <2>1. Quiet
    BY <1>3, PipelineAssumption
    DEF LocalTick, Diff, channel, engine, Chain, WatchersInv, Sent, TypeOK, PipelineAssumption
  <2>2. WatchersInv'
    BY <1>3, PipelineAssumption
    DEF LocalTick, Diff, Goto, channel, engine, Chain, WatchersInv, TypeOK, PipelineAssumption
  <2> QED
    BY <1>0, <2>1, <2>2
<1>4. ASSUME NEW i \in Interfaces, LocalSend(i) PROVE Chain'
  <2>1. i \in todo /\ Put(i) /\ wpc["local"] = "sending"
    BY <1>4 DEF LocalSend, NextInDiff
  <2>2. Sent' = [Sent EXCEPT ![i] = cur[i]]
    BY <1>4, PipelineAssumption DEF LocalSend, Sent, TypeOK, PipelineAssumption
  <2>3. /\ Linked(events') /\ EndsAt(events', Sent')
        /\ StartsAt(events', last, changedKeys, Sent')
    BY <2>1, <2>2, SendKeepsChain
  <2>4. \A k \in Keys : wpc'[WatcherOf(k)] = "start" => ~Has(events', k)
    <3>1. SUFFICES ASSUME NEW k \in Keys, wpc'[WatcherOf(k)] = "start"
                   PROVE  ~Has(events', k)
      OBVIOUS
    <3>2. wpc[WatcherOf(k)] = "start" /\ k # i
      BY <1>4, <2>1, <3>1, PipelineAssumption DEF LocalSend, Goto, TypeOK, PipelineAssumption
    <3>3. ~Has(events, k)
      BY <3>2 DEF Chain, WatchersInv
    <3>4. events \in Seq(Event) /\ EventOf(i) \in Event /\ EventOf(i).key = i
      BY EventOfType DEF TypeOK, EventOf
    <3> QED
      BY <2>1, <3>2, <3>3, <3>4, AppendProperties, LenProperties DEF Put, Has, Slots
  <2>5. WatchersInv'
    BY <1>4, <2>1, <2>4, PipelineAssumption
    DEF LocalSend, Goto, engine, Chain, WatchersInv, TypeOK, PipelineAssumption
  <2> QED
    BY <1>4, <2>3, <2>5 DEF LocalSend, engine, Chain, EngineInv
<1>5. ASSUME NEW ip \in Lists, PublicBaseline(ip) PROVE Chain'
  <2>1. Quiet
    BY <1>5 DEF PublicBaseline, channel, engine, Chain, WatchersInv, Sent, TypeOK
  <2>2. WatchersInv'
    BY <1>5, PipelineAssumption
    DEF PublicBaseline, Goto, channel, engine, Chain, WatchersInv, TypeOK, PipelineAssumption
  <2> QED
    BY <1>0, <2>1, <2>2
<1>6. ASSUME NEW ip \in Addrs, PublicTick(ip) PROVE Chain'
  <2>1. Quiet
    BY <1>6, PipelineAssumption
    DEF PublicTick, channel, engine, Chain, WatchersInv, Sent, TypeOK, PipelineAssumption
  <2>2. WatchersInv'
    BY <1>6, PipelineAssumption
    DEF PublicTick, Goto, channel, engine, Chain, WatchersInv, TypeOK, PipelineAssumption
  <2> QED
    BY <1>0, <2>1, <2>2
<1>7. ASSUME PublicSend PROVE Chain'
  <2>1. Public \in todo /\ Put(Public)
    BY <1>7 DEF PublicSend, Chain, WatchersInv
  <2>2. Sent' = [Sent EXCEPT ![Public] = cur[Public]]
    BY <1>7 DEF PublicSend, Sent, TypeOK
  <2>3. /\ Linked(events') /\ EndsAt(events', Sent')
        /\ StartsAt(events', last, changedKeys, Sent')
    BY <2>1, <2>2, SendKeepsChain
  <2>4. \A k \in Keys : wpc'[WatcherOf(k)] = "start" => ~Has(events', k)
    <3>1. SUFFICES ASSUME NEW k \in Keys, wpc'[WatcherOf(k)] = "start"
                   PROVE  ~Has(events', k)
      OBVIOUS
    <3>2. wpc[WatcherOf(k)] = "start" /\ k # Public
      BY <1>7, <3>1 DEF PublicSend, Goto, TypeOK
    <3>3. ~Has(events, k)
      BY <3>2 DEF Chain, WatchersInv
    <3>4. events \in Seq(Event) /\ EventOf(Public) \in Event /\ EventOf(Public).key = Public
      BY EventOfType DEF TypeOK, EventOf
    <3> QED
      BY <2>1, <3>2, <3>3, <3>4, AppendProperties, LenProperties DEF Put, Has, Slots
  <2>5. WatchersInv'
    BY <1>7, <2>4, PipelineAssumption
    DEF PublicSend, Goto, engine, Chain, WatchersInv, TypeOK, PipelineAssumption
  <2> QED
    BY <1>7, <2>3, <2>5 DEF PublicSend, engine, Chain, EngineInv
<1>8. ASSUME NEW w \in Watchers, WatcherStop(w) PROVE Chain'
  <2>1. Quiet
    BY <1>8 DEF WatcherStop, channel, engine, Sent
  <2>2. WatchersInv'
    BY <1>8 DEF WatcherStop, Goto, channel, engine, Chain, WatchersInv, TypeOK
  <2> QED
    BY <1>0, <2>1, <2>2
<1>9. ASSUME Drop PROVE Chain'
  <2>1. Head(events).key \notin changedKeys
    BY <1>9, HeadIsNews DEF Drop
  <2>2. /\ Linked(events') /\ EndsAt(events', Sent')
        /\ StartsAt(events', last', changedKeys', Sent')
        /\ \A k \in Keys : ~Has(events, k) => ~Has(events', k)
    BY <1>9, <2>1, ReceiveKeepsChain DEF Drop, watch, engine
  <2>3. WatchersInv' /\ EngineInv'
    BY <1>9, <2>2 DEF Drop, watch, engine, Chain, WatchersInv, EngineInv
  <2> QED
    BY <2>2, <2>3 DEF Chain
<1>10. ASSUME Accept PROVE Chain'
  <2> DEFINE e == Head(events)
  <2>1. /\ Linked(events') /\ EndsAt(events', Sent')
        /\ StartsAt(events', last', changedKeys', Sent')
        /\ \A k \in Keys : ~Has(events, k) => ~Has(events', k)
    BY <1>10, ReceiveKeepsChain DEF Accept, watch
  <2>2. 1 \in Slots(events) /\ events[1] = e /\ e.key \in Keys
    BY <1>10, TailFacts DEF Accept, TypeOK
  <2>3. WatchersInv'
    <3>1. Has(events, e.key)
      BY <2>2 DEF Has
    <3> QED
      BY <1>10, <2>1, <3>1 DEF Accept, watch, Chain, WatchersInv
  <2>4. EngineInv'
    BY <1>10, <2>2 DEF Accept, Chain, EngineInv, TypeOK
  <2> QED
    BY <2>1, <2>3, <2>4 DEF Chain
<1> HIDE DEF Quiet
<1> QED
  <2>1. ASSUME NEW i \in Interfaces, NetworkChange(i) PROVE Chain'
    BY <1>1, <2>1 DEF NetworkChange, channel, engine
  <2>2. ASSUME CloseEvents PROVE Chain'
    BY <1>1, <2>2 DEF CloseEvents, engine
  <2>3. ASSUME DispatchReturns \/ RunReturns \/ Cancel \/ UNCHANGED vars PROVE Chain'
    BY <1>1, <2>3 DEF DispatchReturns, RunReturns, Cancel, vars, channel, engine
  <2> QED
    BY <1>2, <1>3, <1>4, <1>5, <1>6, <1>7, <1>8, <1>9, <1>10, <2>1, <2>2, <2>3
    DEF Next, LocalStep, PublicStep, EngineStep

(* Every change that is reported starts where the report before it on the  *)
(* same key ended, from the engine's dedup map through the channel to the  *)
(* watcher: nothing is merged, skipped or reordered on the way.            *)
THEOREM ChainHolds == Spec => []Chain
<1>1. Init => TypeOK /\ Chain
  BY InitTypeOK, InitChain, PipelineAssumption
<1>2. (TypeOK /\ Chain) /\ [Next]_vars => (TypeOK /\ Chain)'
  BY StepTypeOK, StepChain, PipelineAssumption
<1> QED
  BY <1>1, <1>2, PTL DEF Spec

(* No watcher can meet a closed channel, and Run returns only when all the *)
(* events sent have been dealt with.                                       *)
THEOREM ShutdownIsOrderly == Spec => []OrderlyShutdown
<1>1. Init => OrderlyShutdown
  BY DEF Init, OrderlyShutdown
<1>2. TypeOK /\ OrderlyShutdown /\ [Next]_vars => OrderlyShutdown'
  <2> SUFFICES ASSUME TypeOK, OrderlyShutdown, [Next]_vars PROVE OrderlyShutdown'
    OBVIOUS
  <2> USE DEF OrderlyShutdown
  <2>1. ASSUME NEW i \in Interfaces, NetworkChange(i) PROVE OrderlyShutdown'
    BY <2>1 DEF NetworkChange, watch, channel, engine
  <2>2. ASSUME LocalStep PROVE OrderlyShutdown'
    BY <2>2 DEF LocalStep, LocalBaseline, LocalTick, LocalSend, network, channel, engine
  <2>3. ASSUME PublicStep PROVE OrderlyShutdown'
    BY <2>3 DEF PublicStep, PublicBaseline, PublicTick, PublicSend, network, channel, engine
  <2>4. ASSUME NEW w \in Watchers, WatcherStop(w) PROVE OrderlyShutdown'
    BY <2>4 DEF WatcherStop, Goto, TypeOK, channel, engine
  <2>5. ASSUME CloseEvents PROVE OrderlyShutdown'
    BY <2>5 DEF CloseEvents, watch, engine
  <2>6. ASSUME Drop \/ Accept PROVE OrderlyShutdown'
    BY <2>6 DEF Drop, Accept, watch, engine
  <2>7. ASSUME DispatchReturns \/ RunReturns \/ Cancel \/ UNCHANGED vars
        PROVE  OrderlyShutdown'
    BY <2>7 DEF DispatchReturns, RunReturns, Cancel, vars, watch, channel, engine
  <2> QED
    BY <2>1, <2>2, <2>3, <2>4, <2>5, <2>6, <2>7 DEF Next, EngineStep
<1> QED
  BY <1>1, <1>2, TypeCorrect, PTL DEF Spec

(* With nothing on its way, Snapshot agrees with the watchers.             *)
THEOREM StatusAgrees == Spec => []StatusAgreesWhenDrained
<1>1. TypeOK /\ Chain => StatusAgreesWhenDrained
  <2> SUFFICES ASSUME TypeOK, Chain, events = <<>>, NEW k \in changedKeys \ todo
               PROVE  state[k] = cur[k]
    BY DEF StatusAgreesWhenDrained
  <2>1. ~Has(events, k)
    BY DEF Has, Slots
  <2>2. Sent[k] = cur[k]
    BY DEF Sent, TypeOK
  <2>3. Sent[k] = last[k]
    BY <2>1 DEF Chain, StartsAt
  <2> QED
    BY <2>2, <2>3 DEF Chain, EngineInv
<1> QED
  BY <1>1, TypeCorrect, ChainHolds, PTL

(* changed drops an event only when it says that an interface nobody was   *)
(* told about has gone.                                                    *)
THEOREM DropsAreFirstLosses == Spec => OnlyFirstLossDropped
<1> DEFINE A == Len(events') < Len(events) /\ epc' = "recv"
                => Head(events).new = NoAddrs /\ Head(events).key \notin changedKeys
<1>1. TypeOK /\ Chain /\ [Next]_vars => [A]_vars
  <2> SUFFICES ASSUME TypeOK, Chain, Next, Len(events') < Len(events), epc' = "recv"
               PROVE  Head(events).new = NoAddrs /\ Head(events).key \notin changedKeys
    OBVIOUS
  <2>1. Drop
    <3>1. Len(events) \in Nat
      BY DEF TypeOK
    <3>2. ASSUME NEW k \in Keys, Put(k) PROVE Len(events') = Len(events) + 1
      BY <3>2, EventOfType, AppendProperties DEF Put, TypeOK
    <3>3. events' # events
      BY <3>1
    <3> QED
      BY <3>1, <3>2, <3>3
      DEF Next, NetworkChange, LocalStep, LocalBaseline, LocalTick, LocalSend, PublicStep,
          PublicBaseline, PublicTick, PublicSend, WatcherStop, EngineStep, CloseEvents,
          Accept, DispatchReturns, RunReturns, Cancel, channel
  <2>2. Head(events).key \notin changedKeys /\ ~Changed(Head(events))
    BY <2>1, HeadIsNews DEF Drop
  <2>3. Head(events).key \in Keys
    BY <2>1, TailFacts DEF Drop, TypeOK, Event
  <2> QED
    BY <2>2, <2>3 DEF Changed, Chain, EngineInv
<1>2. [][TypeOK /\ Chain /\ [Next]_vars => [A]_vars]_vars
  BY <1>1, PTL
<1> QED
  BY <1>1, TypeCorrect, ChainHolds, PTL DEF Spec, OnlyFirstLossDropped

----------------------------------------------------------------------------
(* The pipeline implements the ledger.                                     *)

(* An event that is accepted goes on from where the last one of its key    *)
(* ended.                                                                  *)
LEMMA AcceptTells ==
    ASSUME TypeOK, Chain, Accept
    PROVE  LET e == Head(events)
           IN /\ e \in Event
              /\ e.old # e.new
              /\ IF e.key \in changedKeys THEN e.old = state[e.key] ELSE e.new # NoAddrs
<1> DEFINE e == Head(events)
<1>1. /\ e \in Event /\ e.key \in Keys
      /\ 1 \in Slots(events) /\ events[1] = e
  BY TailFacts DEF Accept, TypeOK, Event
<1>2. e.old # e.new
  BY <1>1 DEF Chain, Linked
<1>3. IF e.key \in changedKeys THEN e.old = state[e.key] ELSE e.new # NoAddrs
  BY <1>1, HeadIsNews DEF Accept, Changed, Chain, EngineInv
<1> QED
  BY <1>1, <1>2, <1>3

(* What Run tells subscribers is an unbroken story about each key, over    *)
(* any interleaving of watchers, channel and loop.                         *)
THEOREM PipelineImplementsLedger == Spec => ToldInOrder
<1>1. Init => L!Init
  BY InitTypeOK, PipelineAssumption DEF Init, L!Init, TypeOK, Event
<1>2. TypeOK /\ Chain /\ [Next]_vars => [L!Next]_(L!vars)
  <2> SUFFICES ASSUME TypeOK, Chain, [Next]_vars PROVE [L!Next]_(L!vars)
    OBVIOUS
  <2>1. ASSUME Accept PROVE L!Next
    <3> DEFINE e == Head(events)
    <3>1. /\ e \in Event /\ e.key \in Keys /\ e.old \in Lists /\ e.new \in Lists
          /\ e = [key |-> e.key, old |-> e.old, new |-> e.new]
      BY <2>1, TailFacts DEF Accept, TypeOK, Event
    <3>2. e.old # e.new
      BY <2>1, AcceptTells
    <3>3. IF e.key \in changedKeys THEN e.old = state[e.key] ELSE e.new # NoAddrs
      BY <2>1, AcceptTells
    <3>4. L!Tell(e.key, e.old, e.new)
      BY <2>1, <3>1, <3>2, <3>3 DEF Accept, L!Tell
    <3> QED
      BY <3>1, <3>4 DEF L!Next
  <2>2. ASSUME ~Accept PROVE UNCHANGED <<state, changedKeys, inHand>>
    BY <2>2
    DEF Next, NetworkChange, LocalStep, LocalBaseline, LocalTick, LocalSend, PublicStep,
        PublicBaseline, PublicTick, PublicSend, WatcherStop, EngineStep, CloseEvents,
        Drop, DispatchReturns, RunReturns, Cancel, vars, engine
  <2> QED
    BY <2>1, <2>2 DEF L!vars
<1> QED
  BY <1>1, <1>2, TypeCorrect, ChainHolds, PTL DEF Spec, ToldInOrder, L!Spec

=============================================================================
