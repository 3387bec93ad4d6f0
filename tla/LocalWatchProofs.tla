-------------------------- MODULE LocalWatchProofs --------------------------
(***************************************************************************)
(* Theorems about LocalWatch, for every machine, every configuration and   *)
(* every bound: what a snapshot shows when nothing moves; and that a walk  *)
(* over the interfaces, call by call, is as good as the one step that      *)
(* EventPipeline takes a snapshot to be.                                   *)
(***************************************************************************)
EXTENDS LocalWatch, FiniteSetTheorems, FunctionTheorems, SequenceTheorems, TLAPS

----------------------------------------------------------------------------
(* Sorting.                                                                *)

(* An arrangement of a finite set lists all of it, each element once.      *)
LEMMA Arranged ==
    ASSUME NEW S, IsFiniteSet(S), NEW p \in SetToSeqs(S)
    PROVE  /\ Cardinality(S) \in Nat
           /\ p \in [1 .. Cardinality(S) -> S]
           /\ \A m, n \in 1 .. Cardinality(S) : p[m] = p[n] => m = n
           /\ \A e \in S : \E n \in 1 .. Cardinality(S) : p[n] = e
<1> DEFINE D == 1 .. Cardinality(S)
<1>1. Cardinality(S) \in Nat
  BY FS_CardinalityType
<1>2. p \in [D -> S] /\ \A m, n \in D : p[m] = p[n] => m = n
  BY DEF SetToSeqs
<1>3. IsFiniteSet(D) /\ Cardinality(D) = Cardinality(S)
  BY <1>1, FS_Interval
<1>4. p \in Injection(D, S)
  BY <1>2, Fun_IsInj
<1>5. p \in Surjection(D, S)
  BY <1>3, <1>4, FS_Injection
<1> QED
  BY <1>1, <1>2, <1>5, Fun_SurjectionProperties

LEMMA Arranges ==
    ASSUME NEW S, IsFiniteSet(S), NEW p \in [1 .. Cardinality(S) -> S],
           \A m, n \in 1 .. Cardinality(S) : p[m] = p[n] => m = n
    PROVE  p \in SetToSeqs(S)
BY DEF SetToSeqs

(* Every list can be put in order: rank the positions by value, and those  *)
(* of one value as they are.                                               *)
LEMMA CanBeSorted ==
    ASSUME NEW N \in Nat, NEW s \in [1 .. N -> Nat]
    PROVE  \E p \in SetToSeqs(1 .. N) :
              \A m, n \in 1 .. N : m < n => s[p[m]] <= s[p[n]]
<1> DEFINE D         == 1 .. N
           Before(i) == {j \in D : s[j] < s[i] \/ (s[j] = s[i] /\ j <= i)}
           rank      == [i \in D |-> Cardinality(Before(i))]
           p         == [n \in D |-> CHOOSE i \in D : rank[i] = n]
<1>1. IsFiniteSet(D) /\ Cardinality(D) = N
  BY FS_Interval
<1>2. ASSUME NEW i \in D
      PROVE  IsFiniteSet(Before(i)) /\ Cardinality(Before(i)) \in D /\ i \in Before(i)
  <2>1. Before(i) \in SUBSET D /\ i \in Before(i)
    OBVIOUS
  <2> HIDE DEF Before
  <2>2. IsFiniteSet(Before(i)) /\ Cardinality(Before(i)) <= N
    BY <1>1, <2>1, FS_Subset
  <2>3. Cardinality(Before(i)) \in Nat /\ Cardinality(Before(i)) # 0
    BY <2>1, <2>2, FS_CardinalityType, FS_EmptySet
  <2> QED
    BY <2>1, <2>2, <2>3
<1>3. rank \in [D -> D]
  BY <1>2
<1>4. ASSUME NEW i \in D, NEW j \in D, s[i] < s[j] \/ (s[i] = s[j] /\ i < j)
      PROVE  rank[i] < rank[j]
  <2>1. Before(i) \in SUBSET (Before(j) \ {j})
    BY <1>4
  <2> HIDE DEF Before
  <2>2. IsFiniteSet(Before(j) \ {j}) /\ Cardinality(Before(j) \ {j}) = Cardinality(Before(j)) - 1
    BY <1>2, FS_RemoveElement
  <2>3. Cardinality(Before(i)) <= Cardinality(Before(j)) - 1
    BY <2>1, <2>2, FS_Subset
  <2> QED
    BY <1>2, <2>3
<1>5. \A i, j \in D : rank[i] = rank[j] => i = j
  <2> SUFFICES ASSUME NEW i \in D, NEW j \in D, i # j PROVE rank[i] # rank[j]
    OBVIOUS
  <2>1. \/ s[i] < s[j] \/ (s[i] = s[j] /\ i < j)
        \/ s[j] < s[i] \/ (s[j] = s[i] /\ j < i)
    OBVIOUS
  <2>2. rank[i] \in Nat /\ rank[j] \in Nat
    BY <1>3
  <2> HIDE DEF rank
  <2> QED
    BY <1>4, <2>1, <2>2
<1> HIDE DEF rank
<1>6. \A n \in D : \E i \in D : rank[i] = n
  <2>1. rank \in Injection(D, D)
    BY <1>3, <1>5, Fun_IsInj
  <2>2. rank \in Surjection(D, D)
    BY <1>1, <2>1, FS_Injection
  <2> QED
    BY <2>2 DEF Surjection
<1>7. \A n \in D : p[n] \in D /\ rank[p[n]] = n
  BY <1>6
<1> HIDE DEF p
<1>8. p \in SetToSeqs(D)
  <2>1. p \in [D -> D]
    BY <1>7 DEF p
  <2>2. \A m, n \in D : p[m] = p[n] => m = n
    BY <1>7
  <2> QED
    BY <1>1, <2>1, <2>2, Arranges
<1>9. ASSUME NEW m \in D, NEW n \in D, m < n PROVE s[p[m]] <= s[p[n]]
  <2>1. p[m] \in D /\ p[n] \in D /\ rank[p[m]] = m /\ rank[p[n]] = n
    BY <1>7
  <2>2. ~(s[p[n]] < s[p[m]])
    BY <1>4, <1>9, <2>1
  <2> QED
    BY <2>1, <2>2
<1> QED
  BY <1>8, <1>9

(* sort.Strings rearranges, into order.                                    *)
LEMMA SortedFacts ==
    ASSUME NEW N \in Nat, NEW s \in [1 .. N -> Nat]
    PROVE  \E p \in SetToSeqs(1 .. N) :
              /\ Sorted(s) = [n \in 1 .. N |-> s[p[n]]]
              /\ \A m, n \in 1 .. N : m < n => s[p[m]] <= s[p[n]]
<1> DEFINE Orders(p) == \A m, n \in 1 .. N : m < n => s[p[m]] <= s[p[n]]
           order     == CHOOSE p \in SetToSeqs(1 .. N) : Orders(p)
<1>1. DOMAIN s = 1 .. N
  OBVIOUS
<1>2. order \in SetToSeqs(1 .. N) /\ Orders(order)
  <2>1. \E p \in SetToSeqs(1 .. N) : Orders(p)
    BY CanBeSorted
  <2> HIDE DEF Orders
  <2> QED
    BY <2>1
<1>3. Sorted(s) = [n \in 1 .. N |-> s[order[n]]]
  BY <1>1 DEF Sorted
<1> HIDE DEF order
<1> QED
  BY <1>2, <1>3

(* How many of S have a value of at most, of less than a.                  *)
AtMost(S, v, a) == {e \in S : v[e] <= a}
Below(S, v, a)  == {e \in S : v[e] < a}

LEMMA Counted ==
    ASSUME NEW S, IsFiniteSet(S), NEW v \in [S -> Nat], NEW a \in Nat
    PROVE  /\ IsFiniteSet(AtMost(S, v, a)) /\ Cardinality(AtMost(S, v, a)) \in Nat
           /\ IsFiniteSet(Below(S, v, a)) /\ Cardinality(Below(S, v, a)) \in Nat
<1>1. AtMost(S, v, a) \in SUBSET S /\ Below(S, v, a) \in SUBSET S
  BY DEF AtMost, Below
<1> QED
  BY <1>1, FS_Subset, FS_CardinalityType

(* The n-th in order is at least n's equal, and fewer are below it.        *)
LEMMA NthInOrder ==
    ASSUME NEW S, IsFiniteSet(S), NEW v \in [S -> Nat],
           NEW N \in Nat, NEW q \in [1 .. N -> S],
           \A m, k \in 1 .. N : q[m] = q[k] => m = k,
           \A e \in S : \E m \in 1 .. N : q[m] = e,
           \A m, k \in 1 .. N : m < k => v[q[m]] <= v[q[k]],
           NEW n \in 1 .. N
    PROVE  /\ Cardinality(AtMost(S, v, v[q[n]])) >= n
           /\ Cardinality(Below(S, v, v[q[n]])) < n
<1> DEFINE a == v[q[n]]
           f == [m \in 1 .. n |-> q[m]]
           g == [e \in Below(S, v, a) |-> CHOOSE m \in 1 .. N : q[m] = e]
<1>0. a \in Nat /\ n \in Nat /\ n - 1 \in Int
  OBVIOUS
<1>1. f \in [1 .. n -> AtMost(S, v, a)] /\ \A m, k \in 1 .. n : f[m] = f[k] => m = k
  <2>1. ASSUME NEW m \in 1 .. n PROVE m \in 1 .. N /\ q[m] \in AtMost(S, v, a)
    <3>1. m \in 1 .. N /\ (m < n \/ m = n)
      OBVIOUS
    <3>2. v[q[m]] <= v[q[n]]
      BY <3>1
    <3> QED
      BY <3>1, <3>2 DEF AtMost
  <2> QED
    BY <2>1
<1>2. Cardinality(AtMost(S, v, a)) >= n
  <2>1. f \in Injection(1 .. n, AtMost(S, v, a))
    BY <1>1, Fun_IsInj
  <2>2. IsFiniteSet(1 .. n) /\ Cardinality(1 .. n) = n
    BY <1>0, FS_Interval
  <2>3. IsFiniteSet(AtMost(S, v, a)) /\ Cardinality(AtMost(S, v, a)) \in Nat
    BY <1>0, Counted
  <2> HIDE DEF f
  <2>4. Cardinality(1 .. n) <= Cardinality(AtMost(S, v, a))
    BY <2>1, <2>3, FS_Injection
  <2> QED
    BY <1>0, <2>2, <2>3, <2>4
<1>3. /\ g \in [Below(S, v, a) -> 1 .. n - 1]
      /\ \A d, e \in Below(S, v, a) : g[d] = g[e] => d = e
  <2>1. ASSUME NEW e \in Below(S, v, a) PROVE g[e] \in 1 .. n - 1 /\ q[g[e]] = e
    <3>1. e \in S /\ v[e] < v[q[n]]
      BY DEF Below
    <3>2. \E m \in 1 .. N : q[m] = e
      BY <3>1
    <3>3. g[e] \in 1 .. N /\ q[g[e]] = e
      BY <3>2
    <3> HIDE DEF g
    <3>4. ~(n < g[e]) /\ n # g[e]
      BY <3>1, <3>3
    <3> QED
      BY <3>3, <3>4
  <2> QED
    BY <2>1
<1>4. Cardinality(Below(S, v, a)) < n
  <2>1. g \in Injection(Below(S, v, a), 1 .. n - 1)
    BY <1>3, Fun_IsInj
  <2>2. IsFiniteSet(1 .. n - 1) /\ Cardinality(1 .. n - 1) = n - 1
    <3> DEFINE k == n - 1
    <3>1. k \in Int /\ k >= 0
      OBVIOUS
    <3> HIDE DEF k
    <3>2. IsFiniteSet(1 .. k) /\ Cardinality(1 .. k) = k
      BY <3>1, FS_Interval
    <3> QED
      BY <3>2 DEF k
  <2>3. Cardinality(Below(S, v, a)) \in Nat
    BY <1>0, Counted
  <2> HIDE DEF g
  <2>4. Cardinality(Below(S, v, a)) <= Cardinality(1 .. n - 1)
    BY <2>1, <2>2, FS_Injection
  <2> QED
    BY <1>0, <2>2, <2>3, <2>4
<1> QED
  BY <1>2, <1>4

(* There is no other such value.                                           *)
LEMMA NthIsUnique ==
    ASSUME NEW S, IsFiniteSet(S), NEW v \in [S -> Nat], NEW n \in Nat,
           NEW a \in Nat, Cardinality(AtMost(S, v, a)) >= n,
           NEW b \in Nat, Cardinality(Below(S, v, b)) < n
    PROVE  ~(a < b)
<1> SUFFICES ASSUME a < b PROVE FALSE
  OBVIOUS
<1>1. AtMost(S, v, a) \in SUBSET Below(S, v, b)
  BY DEF AtMost, Below
<1>2. /\ IsFiniteSet(Below(S, v, b)) /\ Cardinality(Below(S, v, b)) \in Nat
      /\ Cardinality(AtMost(S, v, a)) \in Nat
  BY Counted
<1>3. Cardinality(AtMost(S, v, a)) <= Cardinality(Below(S, v, b))
  BY <1>1, <1>2, FS_Subset
<1> QED
  BY <1>2, <1>3

(* The list that snapshot makes of the entries it keeps does not depend on *)
(* the order they come in: it is the one of SortedIPs.                     *)
LEMMA CollectedIsSorted ==
    ASSUME NEW S \in SUBSET Entries, IsFiniteSet(S), NEW kept \in SetToSeqs(S)
    PROVE  Collect(kept) = SortedIPs(S) /\ Collect(kept) \in Seq(Nat)
<1> DEFINE N == Cardinality(S)
           s == [n \in 1 .. N |-> IP[kept[n]]]
           v == [e \in S |-> IP[e]]
<1>1. /\ N \in Nat /\ kept \in [1 .. N -> S]
      /\ \A m, n \in 1 .. N : kept[m] = kept[n] => m = n
  BY Arranged
<1>2. s \in [1 .. N -> Nat] /\ v \in [S -> Nat]
  BY <1>1, LocalWatchAssumption
<1>3. Collect(kept) = Sorted(s)
  BY <1>1 DEF Collect
<1>4. \A n \in 1 .. N : s[n] = v[kept[n]]
  BY <1>1
<1>5. \A a : {e \in S : IP[e] <= a} = AtMost(S, v, a) /\ {e \in S : IP[e] < a} = Below(S, v, a)
  BY DEF AtMost, Below
<1>6. {IP[e] : e \in S} = {v[e] : e \in S}
  OBVIOUS
<1> HIDE DEF N, s, v
<1>7. PICK p \in SetToSeqs(1 .. N) : /\ Sorted(s) = [n \in 1 .. N |-> s[p[n]]]
                                    /\ \A m, n \in 1 .. N : m < n => s[p[m]] <= s[p[n]]
  BY <1>1, <1>2, SortedFacts
<1>8. p \in [1 .. N -> 1 .. N] /\ \A m, n \in 1 .. N : p[m] = p[n] => m = n
  <2>1. IsFiniteSet(1 .. N) /\ Cardinality(1 .. N) = N
    BY <1>1, FS_Interval
  <2> QED
    BY <2>1, Arranged
<1> DEFINE q == [n \in 1 .. N |-> kept[p[n]]]
<1>9. /\ q \in [1 .. N -> S] /\ \A m, n \in 1 .. N : q[m] = q[n] => m = n
      /\ \A n \in 1 .. N : s[p[n]] = v[q[n]]
  BY <1>1, <1>4, <1>8
<1> HIDE DEF q
<1>10. \A m, n \in 1 .. N : m < n => v[q[m]] <= v[q[n]]
  BY <1>7, <1>9
<1>11. \A e \in S : \E n \in 1 .. N : q[n] = e
  <2>1. q \in SetToSeqs(S)
    BY <1>9, Arranges DEF N
  <2> QED
    BY <2>1, Arranged DEF N
<1>12. ASSUME NEW n \in 1 .. N
       PROVE  v[q[n]] = CHOOSE a \in {IP[e] : e \in S} :
                          /\ Cardinality({e \in S : IP[e] <= a}) >= n
                          /\ Cardinality({e \in S : IP[e] < a}) < n
  <2>1. /\ Cardinality(AtMost(S, v, v[q[n]])) >= n
        /\ Cardinality(Below(S, v, v[q[n]])) < n
    BY <1>1, <1>2, <1>9, <1>10, <1>11, NthInOrder
  <2>2. v[q[n]] \in {v[e] : e \in S} /\ v[q[n]] \in Nat
    BY <1>2, <1>9
  <2>3. ASSUME NEW a \in {v[e] : e \in S}, Cardinality(AtMost(S, v, a)) >= n,
               Cardinality(Below(S, v, a)) < n
        PROVE  a = v[q[n]]
    <3>1. a \in Nat /\ n \in Nat
      BY <1>1, <1>2
    <3>2. ~(a < v[q[n]]) /\ ~(v[q[n]] < a)
      BY <1>2, <2>1, <2>2, <2>3, <3>1, NthIsUnique
    <3> QED
      BY <2>2, <3>1, <3>2
  <2> QED
    BY <1>5, <1>6, <2>1, <2>2, <2>3
<1>13. Collect(kept) = [n \in 1 .. N |-> v[q[n]]]
  BY <1>3, <1>7, <1>9
<1>14. Collect(kept) \in Seq(Nat)
  <2>1. [n \in 1 .. N |-> v[q[n]]] \in [1 .. N -> Nat]
    BY <1>2, <1>9
  <2> QED
    BY <1>1, <1>13, <2>1, SeqDef
<1> QED
  BY <1>12, <1>13, <1>14 DEF SortedIPs, N

LEMMA SortedIPsType ==
    ASSUME NEW S \in SUBSET Entries, IsFiniteSet(S)
    PROVE  SortedIPs(S) \in Seq(Nat) /\ SortedIPs({}) = <<>>
<1>1. PICK f \in Bijection(1 .. Cardinality(S), S) : TRUE
  BY FS_CardinalityType DEF ExistsBijection
<1>2. f \in SetToSeqs(S)
  <2>1. /\ f \in [1 .. Cardinality(S) -> S]
        /\ \A m, n \in 1 .. Cardinality(S) : f[m] = f[n] => m = n
    BY <1>1 DEF Bijection, Injection, IsInjective
  <2> QED
    BY <2>1, Arranges
<1>3. SortedIPs({}) = <<>>
  BY FS_EmptySet DEF SortedIPs
<1> QED
  BY <1>2, <1>3, CollectedIsSorted

----------------------------------------------------------------------------
(* One look at one interface.                                              *)

(* What there is to see of i when it is up, and what sees of it who thinks *)
(* that the interfaces of ups are.                                         *)
Shown(i)      == IF Wanted(i) THEN SortedIPs(Kept(i)) ELSE <<>>
Looks(i, ups) == IF i \in ups THEN Shown(i) ELSE <<>>

Budgets == [{"change", "fault", "answer"} -> Int]

(* TypeOK, but for what budget is never less than.                         *)
TypedNetwork ==
    /\ caller \in {"Watch", "CurrentIPs"}
    /\ settings \in Settings /\ up \subseteq Names /\ os \in Possible
    /\ moves \in 0 .. MaxMoves /\ faults \in 0 .. MaxFaults
    /\ clean \in -1 .. MaxMoves /\ cancelled \in BOOLEAN /\ announced \subseteq Nat

TypedWalk ==
    /\ walking \in BOOLEAN /\ left \subseteq Names /\ flags \subseteq Names
    /\ got \in [Names -> Seq(Nat)] /\ lost \subseteq Names
    /\ since \in 0 .. MaxMoves

TypedWatch ==
    /\ wpc \in {"start", "idle", "sending", "done"}
    /\ prev \in [Names -> Seq(Nat)] /\ cur \in [Names -> Seq(Nat)]
    /\ seen \in [Names -> Seq(Nat)]
    /\ todo \subseteq Names
    /\ sent \in Seq([key : Names, old : Seq(Nat), new : Seq(Nat)])
    /\ budget \in Budgets

Typed == TypedNetwork /\ TypedWalk /\ TypedWatch

USE DEF Typed

(* The code's checks make of an interface what is described.               *)
LEMMA KeptIsFinite ==
    ASSUME os \in Possible, NEW i \in Names
    PROVE  Kept(i) \in SUBSET Entries /\ IsFiniteSet(Kept(i))
<1>1. os[i] \in SUBSET Entries /\ IsFiniteSet(os[i])
  BY LocalWatchAssumption
<1>2. Kept(i) \in SUBSET os[i]
  BY DEF Kept
<1> QED
  BY <1>1, <1>2, FS_Subset

LEMMA LooksAreLists ==
    ASSUME os \in Possible, NEW i \in Names, NEW ups
    PROVE  Looks(i, ups) \in Seq(Nat) /\ Looks(i, ups) \in P!Lists
<1>1. SortedIPs(Kept(i)) \in Seq(Nat) /\ SortedIPs({}) = <<>>
  BY KeptIsFinite, SortedIPsType
<1>2. Kept(i) # {} => SortedIPs(Kept(i)) \in SortedLists
  BY KeptIsFinite DEF SortedLists
<1>3. <<>> \in Seq(Nat)
  OBVIOUS
<1> QED
  BY <1>1, <1>2, <1>3 DEF Shown, Looks, P!Lists

LEMMA LooksAreDescribed ==
    ASSUME settings \in Settings, os \in Possible, NEW i \in Names
    PROVE  Described(i) = Looks(i, up)
<1>0. /\ settings.virtual \in BOOLEAN /\ settings.noV6 \in BOOLEAN /\ settings.ula \in BOOLEAN
      /\ Kind[i] \in {"physical", "denied", "ptp", "loopback"} /\ os[i] \in SUBSET Entries
  BY LocalWatchAssumption
<1>1. Wanted(i) <=> i \in Watched /\ Kind[i] # "loopback"
  BY <1>0 DEF Wanted, Watched, isVirtualInterface
<1>2. Kept(i) = os[i] \cap Counts
  <2>1. ASSUME NEW e \in Entries PROVE keepIP(e) <=> e \in Counts
    <3>1. Class[e] \in {"v4", "v6", "ula", "linklocal"}
      BY LocalWatchAssumption
    <3> QED
      BY <1>0, <3>1 DEF keepIP, Counts
  <2> QED
    BY <1>0, <2>1 DEF Kept
<1> QED
  BY <1>1, <1>2 DEF Described, Shown, Looks

----------------------------------------------------------------------------
(* The walk.                                                               *)

(* result is empty where nothing has been read, and else what was seen.    *)
WalkInv ==
    /\ ~walking => left = {} /\ lost = {} /\ got = Nothing
    /\ left \cap lost = {}
    /\ \A i \in left \cup lost : got[i] = <<>>
    /\ caller = "Watch" /\ walking => \A i \in Names \ (left \cup lost) : got[i] = seen[i]
    /\ since <= moves /\ clean <= moves

(* A visit looks with the flags of the list, or misses i.                  *)
Looked(i) ==
    /\ got' = [got EXCEPT ![i] = Looks(i, flags)]
    /\ Sees(i, Looks(i, flags))
    /\ UNCHANGED <<faults, lost>>

Missed(i) ==
    /\ Fault
    /\ lost' = lost \cup {i}
    /\ UNCHANGED <<got, seen, budget>>

LEMMA VisitStep ==
    ASSUME Typed, WalkInv, NEW i \in Names, Skip(i) \/ ReadAddrs(i) \/ ReadFails(i)
    PROVE  LooksAt(i) /\ (Looked(i) \/ Missed(i))
<1>1. CASE Skip(i)
  <2>1. LooksAt(i) /\ Looks(i, flags) = <<>>
    BY <1>1 DEF Skip, Shown, Looks
  <2>2. got = [got EXCEPT ![i] = <<>>]
    BY <2>1 DEF LooksAt, WalkInv, TypedWalk
  <2> QED
    BY <1>1, <2>1, <2>2 DEF Skip, Looked
<1>2. CASE ReadAddrs(i)
  <2>1. LooksAt(i) /\ Looks(i, flags) = SortedIPs(Kept(i))
    BY <1>2 DEF ReadAddrs, Shown, Looks
  <2>2. \A kept \in SetToSeqs(Kept(i)) : Collect(kept) = SortedIPs(Kept(i))
    BY KeptIsFinite, CollectedIsSorted DEF TypedNetwork, TypedWalk, TypedWatch
  <2> QED
    BY <1>2, <2>1, <2>2 DEF ReadAddrs, Looked
<1>3. CASE ReadFails(i)
  BY <1>3 DEF ReadFails, Missed
<1> QED
  BY <1>1, <1>2, <1>3

(* The bounds, which is all of the assumption that types need.             *)
LEMMA Bounds == MaxMoves \in Nat /\ MaxFaults \in Nat /\ IsFiniteSet(Names)
BY LocalWatchAssumption

LEMMA FaultsLeft == ASSUME faults \in 0 .. MaxFaults, Fault PROVE faults' \in 0 .. MaxFaults
BY Bounds DEF Fault

(* One of the bounds is spent.                                             *)
LEMMA Spending ==
    ASSUME NEW b \in Budgets, NEW kind \in {"change", "fault"}
    PROVE  /\ [b EXCEPT ![kind] = @ - 1] \in Budgets
           /\ [b EXCEPT ![kind] = @ - 1][kind] = b[kind] - 1
           /\ \A k \in {"change", "fault", "answer"} :
                    k # kind => [b EXCEPT ![kind] = @ - 1][k] = b[k]
BY DEF Budgets

LEMMA InitTyped == ASSUME Init PROVE Typed /\ WalkInv
<1>1. Nothing \in [Names -> Seq(Nat)]
  BY DEF Nothing
<1>2. seen \in [Names -> Seq(Nat)]
  BY LooksAreLists, LooksAreDescribed DEF Init
<1>3. /\ budget \in Budgets
      /\ sent \in Seq([key : Names, old : Seq(Nat), new : Seq(Nat)])
  <2>1. /\ sent = <<>>
        /\ budget = [b \in {"change", "fault", "answer"} |->
                        IF b = "change" THEN MaxMoves
                        ELSE IF b = "fault" THEN MaxFaults ELSE 0]
    BY DEF Init
  <2> QED
    BY <2>1, Bounds DEF Budgets
<1>4. TypedWatch
  BY <1>1, <1>2, <1>3 DEF Init, TypedWatch
<1>5. TypedNetwork /\ TypedWalk
  <2>1. 0 \in 0 .. MaxMoves /\ MaxFaults \in 0 .. MaxFaults /\ -1 \in -1 .. MaxMoves
    BY Bounds
  <2>2. TypedNetwork
    BY <2>1 DEF Init, TypedNetwork
  <2>3. TypedWalk
    BY <1>1, <2>1 DEF Init, TypedWalk
  <2> QED
    BY <2>2, <2>3
<1>6. WalkInv
  BY <1>5 DEF Init, WalkInv, TypedNetwork
<1> QED
  BY <1>4, <1>5, <1>6

LEMMA VisitTyped ==
    ASSUME Typed, WalkInv, NEW i \in Names, Skip(i) \/ ReadAddrs(i) \/ ReadFails(i)
    PROVE  Typed' /\ WalkInv'
<1> USE Bounds
<1>1. LooksAt(i) /\ (Looked(i) \/ Missed(i))
  BY VisitStep
<1> DEFINE l == Looks(i, flags)
<1>2. l \in Seq(Nat)
  BY LooksAreLists DEF TypedNetwork
<1>3. TypedNetwork' /\ left' \subseteq Names
  <2>1. faults' \in 0 .. MaxFaults
    BY <1>1, FaultsLeft DEF Looked, Missed, TypedNetwork
  <2> QED
    BY <1>1, <2>1 DEF LooksAt, TypedNetwork, TypedWalk
<1>4. CASE Looked(i)
  <2>1. got' = [got EXCEPT ![i] = l] /\ UNCHANGED <<faults, lost>> /\ Sees(i, l)
    BY <1>4 DEF Looked
  <2> HIDE DEF l
  <2>2. /\ budget' \in Budgets
        /\ seen' \in [Names -> Seq(Nat)]
        /\ \A j \in Names : j # i => seen'[j] = seen[j]
        /\ caller = "Watch" => seen'[i] = l
    <3>1. /\ budget \in Budgets
          /\ seen \in [Names -> Seq(Nat)]
      BY DEF TypedWatch
    <3>2. CASE seen[i] = l \/ caller # "Watch"
      BY <2>1, <3>1, <3>2 DEF Sees
    <3>3. CASE ~(seen[i] = l \/ caller # "Watch")
      <4>1. /\ seen' = [seen EXCEPT ![i] = l]
            /\ budget' = [budget EXCEPT !["change"] = @ - 1]
        BY <2>1, <3>3 DEF Sees
      <4>2. budget' \in Budgets
        BY <3>1, <4>1, Spending
      <4> QED
        BY <1>2, <3>1, <4>1, <4>2
    <3> QED
      BY <3>2, <3>3
  <2>3. TypedWalk'
    BY <1>1, <1>2, <1>3, <2>1 DEF LooksAt, TypedWalk
  <2>4. TypedWatch'
    BY <1>1, <2>2 DEF LooksAt, TypedWatch
  <2>5. WalkInv'
    BY <1>1, <1>2, <2>1, <2>2 DEF LooksAt, TypedWalk, WalkInv
  <2> QED
    BY <1>3, <2>3, <2>4, <2>5
<1>5. CASE Missed(i)
  <2>1. TypedWalk' /\ TypedWatch'
    BY <1>1, <1>3, <1>5 DEF LooksAt, Missed, TypedWalk, TypedWatch
  <2>2. WalkInv'
    BY <1>1, <1>5 DEF LooksAt, Missed, TypedWalk, WalkInv
  <2> QED
    BY <1>3, <2>1, <2>2
<1> QED
  BY <1>1, <1>4, <1>5

LEMMA StepTyped ==
    ASSUME Typed, WalkInv, [Next]_vars
    PROVE  Typed' /\ WalkInv'
<1> USE Bounds
<1>1. ASSUME Move, os' \in Possible, up' \subseteq Names PROVE Typed' /\ WalkInv'
  <2>1. moves' \in 0 .. MaxMoves /\ moves' = moves + 1
    BY <1>1 DEF Move, TypedNetwork
  <2>2. TypedNetwork' /\ TypedWalk' /\ TypedWatch'
    BY <1>1, <2>1 DEF Move, TypedNetwork, TypedWalk, TypedWatch, walk, watch
  <2>3. WalkInv'
    BY <1>1, <2>1 DEF Move, TypedNetwork, TypedWalk, WalkInv, walk, watch, Nothing
  <2> QED
    BY <2>2, <2>3
<1>2. CASE AddressesChange
  BY <1>1, <1>2 DEF AddressesChange, TypedNetwork
<1>3. ASSUME NEW i \in Names, UpOrDown(i) PROVE Typed' /\ WalkInv'
  <2>1. up' \subseteq Names /\ os' \in Possible
    BY <1>3 DEF UpOrDown, TypedNetwork
  <2> QED
    BY <1>1, <1>3, <2>1 DEF UpOrDown
<1>4. CASE Cancel
  BY <1>4 DEF Cancel, TypedNetwork, TypedWalk, TypedWatch, WalkInv, network, walk, watch, Nothing
<1>5. ASSUME NEW fails \in BOOLEAN, Begin(fails), faults' \in 0 .. MaxFaults
      PROVE  Typed' /\ WalkInv'
  <2>1. TypedNetwork' /\ TypedWatch'
    BY <1>5 DEF Begin, TypedNetwork, TypedWatch, watch
  <2>2. TypedWalk'
    BY <1>5 DEF Begin, TypedNetwork, TypedWalk
  <2>3. got = Nothing
    BY <1>5 DEF Begin, WalkInv
  <2>4. WalkInv'
    BY <1>5, <2>1, <2>2, <2>3 DEF Begin, TypedNetwork, WalkInv, watch, Nothing
  <2> QED
    BY <2>1, <2>2, <2>4
<1>6. CASE List \/ ListFails
  <2>1. faults' \in 0 .. MaxFaults
    <3>1. faults \in 0 .. MaxFaults
      BY DEF TypedNetwork
    <3> QED
      BY <1>6, <3>1, FaultsLeft DEF List, ListFails
  <2> QED
    BY <1>5, <1>6, <2>1 DEF List, ListFails
<1>7. CASE Visit
  BY <1>7, VisitTyped DEF Visit
<1>8. ASSUME Done, prev' \in [Names -> Seq(Nat)], cur' \in [Names -> Seq(Nat)],
             wpc' \in {"start", "idle", "sending", "done"}, todo' \subseteq Names,
             announced' \subseteq Nat, budget' \in Budgets
      PROVE  Typed' /\ WalkInv'
  <2>1. Nothing \in [Names -> Seq(Nat)] /\ clean' \in -1 .. MaxMoves /\ clean' <= moves
    BY <1>8 DEF Done, TypedNetwork, Nothing
  <2>2. TypedNetwork' /\ TypedWatch'
    BY <1>8, <2>1 DEF Done, TypedNetwork, TypedWatch, network
  <2>3. TypedWalk'
    <3>1. 0 \in 0 .. MaxMoves /\ {} \subseteq Names
      OBVIOUS
    <3> QED
      BY <1>8, <2>1, <3>1 DEF Done, TypedWalk
  <2>4. WalkInv'
    BY <1>8, <2>1, <2>2 DEF Done, TypedNetwork, WalkInv, network, Nothing
  <2> QED
    BY <2>2, <2>3, <2>4
<1>9. Spent \in Budgets
  BY Spending DEF Spent, TypedWatch
<1>10. CASE Baseline
  <2>1. announced' \subseteq Nat /\ todo' \subseteq Names
    BY <1>10 DEF Baseline, TypedNetwork, TypedWatch
  <2>2. prev' \in [Names -> Seq(Nat)] /\ cur' \in [Names -> Seq(Nat)]
    BY <1>10 DEF Baseline, TypedWalk
  <2> QED
    BY <1>8, <1>9, <1>10, <2>1, <2>2 DEF Baseline
<1>11. CASE Tick
  <2>1. todo' \subseteq Names /\ wpc' \in {"idle", "sending"} /\ budget' \in {budget, Spent}
    BY <1>11 DEF Tick, diff
  <2>2. /\ announced' \subseteq Nat /\ budget' \in Budgets
        /\ prev' \in [Names -> Seq(Nat)]
    BY <1>9, <1>11, <2>1 DEF Tick, TypedNetwork, TypedWatch
  <2>3. cur' \in [Names -> Seq(Nat)]
    BY <1>11 DEF Tick, TypedWalk
  <2> QED
    BY <1>8, <1>11, <2>1, <2>2, <2>3 DEF Tick
<1>12. CASE CurrentIPs
  <2>1. announced' \subseteq Nat
    <3>1. \A i \in Names : ToSet(got[i]) \subseteq Nat
      BY DEF TypedWalk, ToSet
    <3> QED
      BY <1>12, <3>1 DEF CurrentIPs
  <2>2. Done /\ UNCHANGED <<wpc, prev, cur, todo, budget>>
    BY <1>12 DEF CurrentIPs
  <2> QED
    BY <1>8, <2>1, <2>2 DEF TypedWatch
<1>13. ASSUME NEW i \in Names, Send(i) PROVE Typed' /\ WalkInv'
  <2>1. [key |-> i, old |-> prev[i], new |-> cur[i]] \in [key : Names, old : Seq(Nat), new : Seq(Nat)]
    BY DEF TypedWatch
  <2>2. sent' \in Seq([key : Names, old : Seq(Nat), new : Seq(Nat)])
    BY <1>13, <2>1, AppendProperties DEF Send, TypedWatch
  <2>3. /\ wpc' \in {"idle", wpc} /\ prev' \in {prev, cur} /\ todo' = todo \ {i}
        /\ UNCHANGED <<caller, settings, network, walk, cur, seen, budget, cancelled, announced, clean>>
    BY <1>13 DEF Send
  <2>4. TypedWatch'
    BY <2>2, <2>3 DEF TypedWatch
  <2>5. TypedNetwork' /\ TypedWalk' /\ WalkInv'
    BY <2>3 DEF TypedNetwork, TypedWalk, WalkInv, network, walk, Nothing
  <2> QED
    BY <2>4, <2>5
<1>14. CASE Stop \/ UNCHANGED vars
  <2>1. wpc' \in {wpc, "done"} /\ UNCHANGED <<prev, cur, todo, sent, seen, budget>>
    BY <1>14 DEF Stop, vars, watch
  <2>2. UNCHANGED <<caller, settings, network, walk, cancelled, announced, clean>>
    BY <1>14 DEF Stop, vars
  <2>3. TypedNetwork' /\ TypedWalk' /\ WalkInv'
    BY <2>1, <2>2 DEF TypedNetwork, TypedWalk, WalkInv, network, walk, Nothing
  <2>4. TypedWatch'
    BY <2>1 DEF TypedWatch
  <2> QED
    BY <2>3, <2>4
<1> QED
  BY <1>2, <1>3, <1>4, <1>6, <1>7, <1>10, <1>11, <1>12, <1>13, <1>14 DEF Next

LEMMA TypedHolds == Spec => [](Typed /\ WalkInv)
<1>1. Init => Typed /\ WalkInv
  BY InitTyped
<1>2. (Typed /\ WalkInv) /\ [Next]_vars => (Typed /\ WalkInv)'
  BY StepTyped
<1> QED
  BY <1>1, <1>2, PTL DEF Spec

----------------------------------------------------------------------------
(* What a snapshot shows.                                                  *)

LEMMA ShownStays ==
    ASSUME UNCHANGED settings, NEW i \in Names, os'[i] = os[i]
    PROVE  Shown(i)' = Shown(i)
BY DEF Shown, Wanted, Kept, keepIP

LEMMA DescribedStays ==
    ASSUME UNCHANGED <<settings, os, up>>, NEW i \in Names
    PROVE  Described(i)' = Described(i)
BY DEF Described, Watched, Counts

(* When nothing has moved or failed since net.Interfaces answered, its     *)
(* flags are still right, and so is what has been read since.              *)
CleanWalk ==
    walking /\ since = moves /\ lost = {} =>
        flags = up /\ \A i \in Names \ left : got[i] = Described(i)

CleanInv == CleanWalk /\ SnapshotIsWhatIsThere

LEMMA InitClean == ASSUME Init PROVE CleanInv
BY Bounds DEF Init, CleanInv, CleanWalk, SnapshotIsWhatIsThere

LEMMA StillClean ==
    ASSUME UNCHANGED <<caller, settings, os, up, moves, clean, cur, announced>>,
           SnapshotIsWhatIsThere
    PROVE  SnapshotIsWhatIsThere'
<1>1. \A i \in Names : Described(i)' = Described(i)
  BY DescribedStays
<1>2. CASE caller = "Watch"
  BY <1>1, <1>2 DEF SnapshotIsWhatIsThere
<1>3. CASE caller # "Watch"
  <2>1. {ToSet(Described(i)) : i \in Names}' = {ToSet(Described(i)) : i \in Names}
    BY <1>1
  <2> QED
    BY <1>3, <2>1 DEF SnapshotIsWhatIsThere
<1> QED
  BY <1>2, <1>3

LEMMA StepClean ==
    ASSUME Typed, WalkInv, CleanInv, [Next]_vars
    PROVE  CleanInv'
<1>0. moves \in 0 .. MaxMoves /\ since <= moves /\ clean <= moves
      /\ since \in 0 .. MaxMoves /\ clean \in -1 .. MaxMoves
  BY DEF TypedNetwork, TypedWalk, WalkInv
<1>1. ASSUME Move PROVE CleanInv'
  <2>1. moves' = moves + 1 /\ since' = since /\ clean' = clean
    BY <1>1 DEF Move, walk
  <2>2. since' # moves' /\ clean' # moves'
    BY <1>0, <2>1
  <2> QED
    BY <2>2 DEF CleanInv, CleanWalk, SnapshotIsWhatIsThere
<1>2. CASE AddressesChange \/ \E i \in Names : UpOrDown(i)
  BY <1>1, <1>2 DEF AddressesChange, UpOrDown
<1>3. ASSUME NEW fails \in BOOLEAN, Begin(fails) PROVE CleanInv'
  <2>1. UNCHANGED <<caller, settings, os, up, moves, clean, cur, announced>>
    BY <1>3 DEF Begin, watch
  <2>2. CleanWalk'
    BY <1>3, <2>1 DEF Begin, CleanWalk, TypedNetwork
  <2> QED
    BY <2>1, <2>2, StillClean DEF CleanInv
<1>4. ASSUME NEW i \in Names, Skip(i) \/ ReadAddrs(i) \/ ReadFails(i) PROVE CleanInv'
  <2>1. LooksAt(i) /\ (Looked(i) \/ Missed(i))
    BY <1>4, VisitStep
  <2>2. UNCHANGED <<caller, settings, os, up, moves, clean, cur, announced, walking, since, flags>>
    BY <2>1 DEF LooksAt
  <2>3. CASE Looked(i)
    <3>1. Described(i) = Looks(i, up)
      BY LooksAreDescribed DEF TypedNetwork
    <3>2. \A j \in Names : Described(j)' = Described(j)
      BY <2>2, DescribedStays
    <3>3. /\ left' = left \ {i} /\ lost' = lost
          /\ got' = [got EXCEPT ![i] = Looks(i, flags)] /\ got \in [Names -> Seq(Nat)]
      BY <2>1, <2>3 DEF LooksAt, Looked, TypedWalk
    <3> QED
      BY <2>2, <3>1, <3>2, <3>3, StillClean DEF CleanInv, CleanWalk
  <2>4. CASE Missed(i)
    <3>1. lost' # {}
      BY <2>4 DEF Missed
    <3> QED
      BY <2>2, <3>1, StillClean DEF CleanInv, CleanWalk
  <2> QED
    BY <2>1, <2>3, <2>4
<1>5. ASSUME Done, IF caller = "Watch" THEN cur' = got
                   ELSE announced' = UNION {ToSet(got[i]) : i \in Names}
      PROVE  CleanInv'
  <2>1. /\ walking' = FALSE /\ walking /\ left = {}
        /\ clean' = IF since = moves /\ lost = {} THEN moves ELSE -1
        /\ UNCHANGED <<caller, settings, os, up, moves>>
    BY <1>5 DEF Done, network
  <2>2. ASSUME clean' = moves'
        PROVE  \A i \in Names : got[i] = Described(i)'
    <3>1. since = moves /\ lost = {}
      BY <1>0, <2>1, <2>2
    <3>2. \A i \in Names : Described(i)' = Described(i)
      BY <2>1, DescribedStays
    <3> QED
      BY <2>1, <3>1, <3>2 DEF CleanInv, CleanWalk
  <2>3. CASE caller = "Watch"
    BY <1>5, <2>1, <2>2, <2>3 DEF CleanInv, CleanWalk, SnapshotIsWhatIsThere
  <2>4. CASE caller # "Watch"
    <3>1. clean' = moves' =>
            {ToSet(got[i]) : i \in Names} = {ToSet(Described(i)) : i \in Names}'
      BY <2>2
    <3> QED
      BY <1>5, <2>1, <2>4, <3>1 DEF CleanInv, CleanWalk, SnapshotIsWhatIsThere
  <2> QED
    BY <2>3, <2>4
<1>6. CASE Baseline \/ Tick \/ CurrentIPs
  BY <1>5, <1>6 DEF Baseline, Tick, CurrentIPs
<1>7. CASE Cancel \/ (\E i \in Names : Send(i)) \/ Stop \/ UNCHANGED vars
  <2>1. UNCHANGED <<caller, settings, network, walk, cur, announced, clean>>
    BY <1>7 DEF Cancel, Send, Stop, vars, watch
  <2>2. UNCHANGED <<caller, settings, os, up, moves, clean, cur, announced>>
    BY <2>1 DEF network
  <2>3. \A i \in Names : Described(i)' = Described(i)
    BY <2>2, DescribedStays
  <2>4. CleanWalk'
    BY <2>1, <2>2, <2>3 DEF CleanInv, CleanWalk, walk
  <2> QED
    BY <2>2, <2>4, StillClean DEF CleanInv
<1> QED
  BY <1>2, <1>3, <1>4, <1>6, <1>7 DEF Next, List, ListFails, Visit

(* A snapshot during which nothing moved or failed is what the comment on  *)
(* it describes, a listed loopback interface left out and an address with  *)
(* two prefixes in it twice, in whatever order the system lists interfaces *)
(* and addresses: local.go's snapshot with filter.go, and CurrentIPs.      *)
THEOREM SnapshotIsRight == Spec => []SnapshotIsWhatIsThere
<1>1. Init => CleanInv
  BY InitClean
<1>2. (Typed /\ WalkInv) /\ CleanInv /\ [Next]_vars => CleanInv'
  BY StepClean
<1>3. CleanInv => SnapshotIsWhatIsThere
  BY DEF CleanInv
<1> QED
  BY <1>1, <1>2, <1>3, TypedHolds, PTL DEF Spec


----------------------------------------------------------------------------
(* Counting interfaces.                                                    *)

LEMMA PartOfNames ==
    ASSUME NEW S \in SUBSET Names
    PROVE  IsFiniteSet(S) /\ Cardinality(S) \in Nat /\ Cardinality(S) <= Cardinality(Names)
BY Bounds, FS_Subset, FS_CardinalityType

LEMMA NoMore ==
    ASSUME NEW S \in SUBSET Names, NEW T \in SUBSET S
    PROVE  Cardinality(T) <= Cardinality(S)
BY PartOfNames, FS_Subset

LEMMA OneMore ==
    ASSUME NEW S \in SUBSET Names, NEW i \in Names, NEW T \in SUBSET (S \cup {i})
    PROVE  Cardinality(T) <= Cardinality(S) + 1
<1>1. IsFiniteSet(S) /\ Cardinality(S) \in Nat /\ S \cup {i} \in SUBSET Names
  BY PartOfNames
<1>2. Cardinality(S \cup {i}) <= Cardinality(S) + 1
  BY <1>1, FS_AddElement
<1>3. Cardinality(T) <= Cardinality(S \cup {i})
  BY <1>1, NoMore
<1>4. Cardinality(T) \in Nat /\ Cardinality(S \cup {i}) \in Nat
  BY <1>1, PartOfNames
<1> QED
  BY <1>1, <1>2, <1>3, <1>4

LEMMA OneLess ==
    ASSUME NEW S \in SUBSET Names, NEW i \in S, NEW T \in SUBSET (S \ {i})
    PROVE  Cardinality(T) <= Cardinality(S) - 1
<1>1. IsFiniteSet(S) /\ S \ {i} \in SUBSET Names
  BY PartOfNames
<1>2. Cardinality(S \ {i}) = Cardinality(S) - 1
  BY <1>1, FS_RemoveElement
<1> QED
  BY <1>1, <1>2, NoMore

----------------------------------------------------------------------------
(* What the watcher may yet see change.                                    *)

(* The first snapshot is the baseline; later ones are compared with it.    *)
WatchInv ==
    /\ wpc \in {"start", "idle"} => todo = {} /\ prev = cur
    /\ wpc = "start" => sent = <<>>
    /\ caller # "Watch" => wpc = "start"

(* What it would see of i now, if it got there.                            *)
View(i) == Looks(i, IF i \in left THEN flags ELSE up)

(* What it has not seen, where its flags are old, and what the snapshot it *)
(* took last does not have.                                                *)
Unseen == {i \in Names : seen[i] # View(i)}
Stale  == {i \in left : ~(i \in flags <=> i \in up)}
Behind == {i \in Names : cur[i] # seen[i]}

(* A change that it sees is a move it has not seen yet, if not of the      *)
(* addresses, then of the flags; and it owes a fault for what is lost.     *)
ChangesLeft ==
    /\ budget["change"] <= MaxMoves
    /\ caller = "Watch" => budget["change"] + moves >= MaxMoves + Cardinality(Unseen) + Cardinality(Stale)
    /\ caller # "Watch" => budget["change"] = MaxMoves

FaultsPaid ==
    /\ budget["fault"] <= MaxFaults /\ budget["answer"] = 0
    /\ budget["fault"] >= faults + (IF lost = {} THEN 0 ELSE 1)

LEMMA StepWatch ==
    ASSUME Typed, WatchInv, [Next]_vars
    PROVE  WatchInv'
<1>1. CASE UNCHANGED <<caller, watch>>
  BY <1>1 DEF WatchInv, watch
<1>2. CASE Visit
  BY <1>2 DEF Visit, Skip, ReadAddrs, ReadFails, LooksAt, WatchInv
<1>3. CASE Baseline \/ CurrentIPs
  BY <1>3 DEF Baseline, CurrentIPs, Done, WatchInv
<1>6. CASE Tick
  <2>1. /\ caller' = caller /\ caller = "Watch" /\ prev' = prev /\ cur' = got
        /\ todo' = diff(prev, got) /\ wpc' = IF todo' = {} THEN "idle" ELSE "sending"
    BY <1>6 DEF Tick, Done
  <2>2. todo' = {} => prev = got
    BY <2>1 DEF diff, TypedWatch, TypedWalk
  <2> QED
    BY <2>1, <2>2 DEF WatchInv
<1>4. CASE Stop \/ \E i \in Names : Send(i)
  BY <1>4 DEF Stop, Send, WatchInv
<1>5. CASE AddressesChange \/ (\E i \in Names : UpOrDown(i)) \/ Cancel \/ List \/ ListFails
  BY <1>1, <1>5 DEF AddressesChange, UpOrDown, Move, Cancel, List, ListFails, Begin
<1> QED
  BY <1>1, <1>2, <1>3, <1>4, <1>5, <1>6 DEF Next, vars

LEMMA StepFaults ==
    ASSUME Typed, WalkInv, FaultsPaid, [Next]_vars
    PROVE  FaultsPaid'
<1>0. /\ budget \in Budgets /\ faults \in 0 .. MaxFaults /\ budget["fault"] \in Int
  BY DEF TypedWatch, TypedNetwork, Budgets
<1>1. CASE UNCHANGED <<budget, faults, lost>>
  BY <1>1 DEF FaultsPaid
<1>2. CASE ListFails
  <2>1. budget' = budget /\ faults' = faults - 1 /\ lost = {}
    BY <1>2 DEF ListFails, Begin, Fault, watch, WalkInv
  <2> QED
    BY <1>0, <2>1 DEF FaultsPaid
<1>3. CASE List
  <2>1. UNCHANGED <<budget, faults>> /\ lost' = {} /\ lost = {}
    BY <1>3 DEF List, Begin, watch, WalkInv
  <2> QED
    BY <2>1 DEF FaultsPaid
<1>4. ASSUME NEW i \in Names, Skip(i) \/ ReadAddrs(i) \/ ReadFails(i) PROVE FaultsPaid'
  <2>1. CASE Looked(i)
    <3>1. /\ UNCHANGED <<faults, lost>>
          /\ budget' = budget \/ budget' = [budget EXCEPT !["change"] = @ - 1]
      BY <2>1 DEF Looked, Sees
    <3>2. budget'["fault"] = budget["fault"] /\ budget'["answer"] = budget["answer"]
      BY <1>0, <3>1, Spending
    <3> QED
      BY <3>1, <3>2 DEF FaultsPaid
  <2>2. CASE Missed(i)
    <3>1. budget' = budget /\ faults' = faults - 1
      BY <2>2 DEF Missed, Fault
    <3> QED
      BY <1>0, <3>1 DEF FaultsPaid
  <2> QED
    BY <1>4, <2>1, <2>2, VisitStep
<1>5. ASSUME Done, budget' = budget \/ budget' = Spent PROVE FaultsPaid'
  <2>1. faults' = faults /\ lost' = {}
    BY <1>5 DEF Done, network
  <2>2. CASE budget' = budget
    BY <1>0, <2>1, <2>2 DEF FaultsPaid
  <2>3. CASE lost # {} /\ budget' = [budget EXCEPT !["fault"] = @ - 1]
    <3>1. budget'["fault"] = budget["fault"] - 1 /\ budget'["answer"] = budget["answer"]
      BY <1>0, <2>3, Spending
    <3>2. budget["fault"] >= faults + 1
      BY <2>3 DEF FaultsPaid
    <3> QED
      BY <1>0, Bounds, <2>1, <3>1, <3>2 DEF FaultsPaid
  <2> QED
    BY <1>5, <2>2, <2>3 DEF Spent
<1>6. CASE Baseline \/ Tick \/ CurrentIPs
  BY <1>5, <1>6 DEF Baseline, Tick, CurrentIPs
<1>7. CASE AddressesChange \/ (\E i \in Names : UpOrDown(i) \/ Send(i)) \/ Cancel \/ Stop \/ UNCHANGED vars
  BY <1>1, <1>7 DEF AddressesChange, UpOrDown, Move, Send, Cancel, Stop, vars, network, walk, watch
<1> QED
  BY <1>2, <1>3, <1>4, <1>6, <1>7 DEF Next, Visit


(* What is owed does not grow while what is left to pay it with shrinks.   *)
LEMMA Balanced ==
    ASSUME Typed, Typed', ChangesLeft, UNCHANGED caller,
           budget'["change"] <= budget["change"],
           caller # "Watch" => budget'["change"] = budget["change"],
           budget["change"] + moves - Cardinality(Unseen) - Cardinality(Stale) <=
               budget'["change"] + moves' - Cardinality(Unseen') - Cardinality(Stale')
    PROVE  ChangesLeft'
<1>1. budget["change"] \in Int /\ budget'["change"] \in Int /\ moves \in Int /\ moves' \in Int
  BY DEF TypedWatch, TypedNetwork, Budgets
<1>2. /\ Unseen \in SUBSET Names /\ Stale \in SUBSET Names
      /\ Unseen' \in SUBSET Names /\ Stale' \in SUBSET Names
  BY DEF TypedWalk, Unseen, Stale
<1>3. /\ Cardinality(Unseen) \in Nat /\ Cardinality(Stale) \in Nat
      /\ Cardinality(Unseen') \in Nat /\ Cardinality(Stale') \in Nat
  BY <1>2, PartOfNames
<1>4. budget'["change"] <= MaxMoves
  BY <1>1, Bounds DEF ChangesLeft
<1>5. CASE caller = "Watch"
  BY <1>1, <1>3, <1>4, <1>5, Bounds DEF ChangesLeft
<1>6. CASE caller # "Watch"
  BY <1>4, <1>6 DEF ChangesLeft
<1> QED
  BY <1>5, <1>6

LEMMA ViewStays ==
    ASSUME NEW i \in Names, UNCHANGED settings, os'[i] = os[i],
           IF i \in left' THEN i \in flags' <=> (IF i \in left THEN i \in flags ELSE i \in up)
                          ELSE i \in up' <=> (IF i \in left THEN i \in flags ELSE i \in up)
    PROVE  View(i)' = View(i)
<1>1. Shown(i)' = Shown(i)
  BY ShownStays
<1> QED
  BY <1>1 DEF View, Looks

(* One move, of one interface.                                             *)
LEMMA MoveBalances ==
    ASSUME Typed, Typed', ChangesLeft, Move, NEW i \in Names,
           \A j \in Names \ {i} : os'[j] = os[j] /\ (j \in up' <=> j \in up),
           up' = up \/ os' = os
    PROVE  ChangesLeft'
<1>1. UNCHANGED <<caller, settings, left, flags, seen, budget>> /\ moves' = moves + 1
  BY DEF Move, walk, watch
<1>2. Unseen \in SUBSET Names /\ Stale \in SUBSET Names
  BY DEF Unseen, Stale, TypedWalk
<1>3. \A j \in Names \ {i} : View(j)' = View(j)
  BY <1>1, ViewStays
<1>4. Unseen' \subseteq Unseen \cup {i} /\ Stale' \subseteq Stale \cup {i}
  <2>1. Unseen' \subseteq Unseen \cup {i}
    BY <1>1, <1>3 DEF Unseen
  <2>2. Stale' \subseteq Stale \cup {i}
    BY <1>1 DEF Stale, TypedWalk
  <2> QED
    BY <2>1, <2>2
<1>5. Unseen' \subseteq Unseen \/ Stale' \subseteq Stale
  <2>1. CASE up' = up \/ i \notin left
    BY <1>1, <1>4, <2>1 DEF Stale
  <2>2. CASE os' = os /\ i \in left
    <3>1. View(i)' = View(i)
      BY <1>1, <2>2, ViewStays
    <3> QED
      BY <1>1, <1>3, <3>1 DEF Unseen
  <2> QED
    BY <2>1, <2>2
<1>6. /\ Cardinality(Unseen') <= Cardinality(Unseen) + 1
      /\ Cardinality(Stale') <= Cardinality(Stale) + 1
  BY <1>2, <1>4, OneMore
<1>7. \/ Cardinality(Unseen') <= Cardinality(Unseen)
      \/ Cardinality(Stale') <= Cardinality(Stale)
  BY <1>2, <1>5, NoMore
<1>8. /\ Cardinality(Unseen) \in Nat /\ Cardinality(Stale) \in Nat
      /\ Cardinality(Unseen') \in Nat /\ Cardinality(Stale') \in Nat
  BY <1>2, PartOfNames DEF Unseen, Stale, TypedWalk
<1>9. budget["change"] \in Int /\ moves \in Int
  BY DEF TypedWatch, TypedNetwork, Budgets
<1> QED
  BY <1>1, <1>6, <1>7, <1>8, <1>9, Balanced

(* Nothing that a look depends on changes.                                 *)
LEMMA StillBalanced ==
    ASSUME Typed, Typed', ChangesLeft,
           UNCHANGED <<caller, settings, os, up, moves, seen>>,
           budget'["change"] = budget["change"], Stale' = {},
           \A j \in Names : View(j)' = View(j)
    PROVE  ChangesLeft'
<1>1. Unseen' = Unseen /\ Unseen \in SUBSET Names /\ Stale \in SUBSET Names
  BY DEF Unseen, Stale, TypedWalk
<1>2. /\ Cardinality(Unseen) \in Nat /\ Cardinality(Stale) \in Nat /\ Cardinality(Stale') <= Cardinality(Stale)
      /\ Cardinality(Stale') \in Nat
  BY <1>1, PartOfNames, NoMore
<1>3. budget["change"] \in Int /\ moves \in Int
  BY DEF TypedWatch, TypedNetwork, Budgets
<1> QED
  BY <1>1, <1>2, <1>3, Balanced

(* A visit pays for what it sees of i, or finds that the flag was old.     *)
LEMMA VisitBalances ==
    ASSUME Typed, Typed', WalkInv, ChangesLeft, NEW i \in Names, LooksAt(i),
           Looked(i) \/ Missed(i)
    PROVE  ChangesLeft'
<1>1. /\ UNCHANGED <<caller, settings, os, up, moves, flags>>
      /\ i \in left /\ left' = left \ {i}
  BY DEF LooksAt
<1>2. Unseen \in SUBSET Names /\ Stale \in SUBSET Names
  BY DEF Unseen, Stale, TypedWalk
<1>3. \A j \in Names \ {i} : View(j)' = View(j) /\ seen'[j] = seen[j]
  <2>1. \A j \in Names \ {i} : View(j)' = View(j)
    BY <1>1, ViewStays
  <2>2. \A j \in Names \ {i} : seen'[j] = seen[j]
    BY DEF Looked, Missed, Sees, TypedWatch
  <2> QED
    BY <2>1, <2>2
<1>4. View(i) = Looks(i, flags)
  BY <1>1 DEF View
<1>5. i \notin Stale => View(i)' = View(i)
  BY <1>1, ViewStays DEF Stale
<1>6. Stale' = Stale \ {i} /\ Unseen' \ {i} \subseteq Unseen \ {i}
  <2>1. Stale' = Stale \ {i}
    BY <1>1 DEF Stale
  <2>2. Unseen' \ {i} \subseteq Unseen \ {i}
    BY <1>3 DEF Unseen
  <2> QED
    BY <2>1, <2>2
<1>7. /\ Cardinality(Unseen) \in Nat /\ Cardinality(Stale) \in Nat
      /\ Cardinality(Unseen') \in Nat /\ Cardinality(Stale') \in Nat
  <2>1. Unseen' \in SUBSET Names /\ Stale' \in SUBSET Names
    BY <1>2, <1>6 DEF Unseen
  <2> QED
    BY <1>2, <2>1, PartOfNames
<1>8. budget["change"] \in Int /\ moves \in Int /\ budget \in Budgets
  BY DEF TypedWatch, TypedNetwork, Budgets
<1>9. /\ i \in Stale => Cardinality(Stale') <= Cardinality(Stale) - 1
      /\ Cardinality(Stale') <= Cardinality(Stale)
      /\ Cardinality(Unseen') <= Cardinality(Unseen) + 1
      /\ i \in Unseen => Cardinality(Unseen') <= Cardinality(Unseen)
  <2>1. Unseen' \subseteq Unseen \cup {i}
    BY <1>6
  <2> QED
    BY <1>2, <1>6, <2>1, NoMore, OneMore, OneLess
<1>10. CASE UNCHANGED <<seen, budget>>
  <2>1. CASE i \in Stale
    BY <1>1, <1>7, <1>8, <1>9, <1>10, <2>1, Balanced
  <2>2. CASE i \notin Stale
    <3>1. Unseen' \subseteq Unseen
      BY <1>3, <1>5, <1>10, <2>2 DEF Unseen
    <3>2. Cardinality(Unseen') <= Cardinality(Unseen)
      BY <1>2, <3>1, NoMore
    <3> QED
      BY <1>1, <1>7, <1>8, <1>9, <1>10, <3>2, Balanced
  <2> QED
    BY <2>1, <2>2
<1>11. CASE ~UNCHANGED <<seen, budget>>
  <2>1. /\ caller = "Watch" /\ seen[i] # Looks(i, flags)
        /\ seen' = [seen EXCEPT ![i] = Looks(i, flags)]
        /\ budget' = [budget EXCEPT !["change"] = @ - 1]
    BY <1>11 DEF Looked, Missed, Sees
  <2>2. i \in Unseen /\ seen'[i] = View(i) /\ budget'["change"] = budget["change"] - 1
    BY <1>4, <1>8, <2>1, Spending DEF Unseen, TypedWatch
  <2>3. CASE i \in Stale
    BY <1>1, <1>7, <1>8, <1>9, <2>1, <2>2, <2>3, Balanced
  <2>4. CASE i \notin Stale
    <3>1. i \notin Unseen'
      BY <1>5, <2>2, <2>4 DEF Unseen
    <3>2. Unseen' \subseteq Unseen \ {i}
      BY <1>6, <3>1
    <3>3. Cardinality(Unseen') <= Cardinality(Unseen) - 1
      BY <1>2, <2>2, <3>2, OneLess
    <3> QED
      BY <1>1, <1>7, <1>8, <1>9, <2>1, <2>2, <3>3, Balanced
  <2> QED
    BY <2>3, <2>4
<1> QED
  BY <1>10, <1>11


LEMMA InitChanges == ASSUME Init, Typed PROVE ChangesLeft /\ FaultsPaid /\ WatchInv
<1>1. /\ moves = 0 /\ faults = MaxFaults /\ left = {} /\ lost = {}
      /\ seen = [i \in Names |-> Described(i)]
      /\ budget = [b \in {"change", "fault", "answer"} |->
                      IF b = "change" THEN MaxMoves
                      ELSE IF b = "fault" THEN MaxFaults ELSE 0]
  BY DEF Init
<1>2. budget["change"] = MaxMoves /\ budget["fault"] = MaxFaults /\ budget["answer"] = 0
  BY <1>1
<1>3. Unseen = {} /\ Stale = {}
  BY <1>1, LooksAreDescribed DEF TypedNetwork, Unseen, Stale, View
<1>4. ChangesLeft
  BY <1>1, <1>2, <1>3, Bounds, FS_EmptySet DEF ChangesLeft
<1> QED
  BY <1>1, <1>2, <1>4, Bounds DEF Init, WatchInv, FaultsPaid

LEMMA StepChanges ==
    ASSUME Typed, Typed', WalkInv, ChangesLeft, [Next]_vars
    PROVE  ChangesLeft'
<1>1. CASE AddressesChange
  <2>1. PICK i \in Names : \A j \in Names \ {i} : os'[j] = os[j]
    BY <1>1 DEF AddressesChange
  <2> QED
    BY <1>1, <2>1, MoveBalances DEF AddressesChange
<1>2. ASSUME NEW i \in Names, UpOrDown(i) PROVE ChangesLeft'
  <2>1. Move /\ os' = os /\ \A j \in Names \ {i} : j \in up' <=> j \in up
    BY <1>2 DEF UpOrDown
  <2> QED
    BY <2>1, MoveBalances
<1>3. ASSUME NEW fails \in BOOLEAN, Begin(fails) PROVE ChangesLeft'
  <2>1. /\ UNCHANGED <<caller, settings, os, up, moves, seen, budget>>
        /\ left = {} /\ (left' = {} \/ flags' = up')
    BY <1>3 DEF Begin, watch, WalkInv
  <2>2. Stale' = {} /\ \A j \in Names : View(j)' = View(j)
    BY <2>1, ViewStays DEF Stale
  <2> QED
    BY <2>1, <2>2, StillBalanced
<1>4. ASSUME NEW i \in Names, Skip(i) \/ ReadAddrs(i) \/ ReadFails(i) PROVE ChangesLeft'
  BY <1>4, VisitStep, VisitBalances
<1>5. ASSUME Done, budget' = budget \/ budget' = Spent PROVE ChangesLeft'
  <2>1. UNCHANGED <<caller, settings, os, up, moves, seen>> /\ left' = {} /\ left = {}
    BY <1>5 DEF Done, network
  <2>2. Stale' = {} /\ \A j \in Names : View(j)' = View(j)
    BY <2>1, ViewStays DEF Stale
  <2>3. budget'["change"] = budget["change"]
    BY <1>5, Spending DEF Spent, TypedWatch
  <2> QED
    BY <2>1, <2>2, <2>3, StillBalanced
<1>6. CASE Baseline \/ Tick \/ CurrentIPs
  BY <1>5, <1>6 DEF Baseline, Tick, CurrentIPs
<1>7. CASE (\E i \in Names : Send(i)) \/ Cancel \/ Stop \/ UNCHANGED vars
  <2>1. UNCHANGED <<caller, settings, os, up, moves, left, flags, seen, budget>>
    BY <1>7 DEF Send, Cancel, Stop, vars, network, walk, watch
  <2>2. Stale' = Stale /\ \A j \in Names : View(j)' = View(j)
    BY <2>1, ViewStays DEF Stale
  <2>3. Unseen' = Unseen
    BY <2>1, <2>2 DEF Unseen
  <2> QED
    BY <2>1, <2>2, <2>3 DEF ChangesLeft
<1> QED
  BY <1>1, <1>2, <1>3, <1>4, <1>6, <1>7 DEF Next, List, ListFails, Visit

(* All of it, which is inductive.                                          *)
Known == Typed /\ WalkInv /\ WatchInv /\ ChangesLeft /\ FaultsPaid

LEMMA KnownHolds == Spec => []Known
<1>1. Init => Known
  BY InitTyped, InitChanges DEF Known
<1>2. Known /\ [Next]_vars => Known'
  BY StepTyped, StepWatch, StepChanges, StepFaults DEF Known
<1> QED
  BY <1>1, <1>2, PTL DEF Spec

LEMMA BudgetLeft ==
    ASSUME Known
    PROVE  /\ budget["change"] \in Nat /\ budget["fault"] \in Nat
           /\ caller = "Watch" => budget["change"] >= Cardinality(Unseen)
           /\ lost # {} => budget["fault"] > 0
<1>1. /\ budget["change"] \in Int /\ budget["fault"] \in Int
      /\ moves \in 0 .. MaxMoves /\ faults \in 0 .. MaxFaults /\ caller \in {"Watch", "CurrentIPs"}
  BY DEF Known, TypedWatch, TypedNetwork, Budgets
<1>2. Cardinality(Unseen) \in Nat /\ Cardinality(Stale) \in Nat
  <2>1. Unseen \in SUBSET Names /\ Stale \in SUBSET Names
    BY DEF Known, Unseen, Stale, TypedWalk
  <2> QED
    BY <2>1, PartOfNames
<1>3. budget["fault"] \in Nat /\ (lost # {} => budget["fault"] > 0)
  BY <1>1, Bounds DEF Known, FaultsPaid
<1>4. CASE caller = "Watch"
  BY <1>1, <1>2, <1>3, <1>4, Bounds DEF Known, ChangesLeft
<1>5. CASE caller # "Watch"
  BY <1>1, <1>3, <1>5, Bounds DEF Known, ChangesLeft
<1> QED
  BY <1>4, <1>5

(* Every variable keeps its type: in particular the watcher never sees     *)
(* more changes than the network makes, nor loses more snapshots than      *)
(* system calls fail.                                                      *)
THEOREM TypeCorrect == Spec => []TypeOK
<1>1. Known => TypeOK
  <2>1. ASSUME Known PROVE budget \in [{"change", "fault", "answer"} -> Nat]
    <3>1. budget["change"] \in Nat /\ budget["fault"] \in Nat /\ budget["answer"] \in Nat
      BY <2>1, BudgetLeft DEF Known, FaultsPaid
    <3> QED
      BY <2>1, <3>1 DEF Known, TypedWatch, Budgets
  <2> QED
    BY <2>1 DEF Known, TypedNetwork, TypedWalk, TypedWatch, TypeOK
<1> QED
  BY <1>1, KnownHolds, PTL


----------------------------------------------------------------------------
(* How many events there can be.                                           *)

(* n faults: each may make every interface go and come back.               *)
Worth(n) == (2 * Cardinality(Names)) * n

LEMMA Products ==
    ASSUME NEW k \in Nat, NEW m \in Nat, NEW n \in Nat
    PROVE  k * n \in Nat /\ k * (n + 1) = k * n + k /\ (m <= n => k * m <= k * n)
<1>1. k * n \in Nat /\ k * m \in Nat /\ k * (n + 1) = k * n + k
  OBVIOUS
<1>2. CASE m <= n
  <2>1. n - m \in Nat /\ k * (n - m) >= 0
    BY <1>2
  <2>2. k * n = k * m + k * (n - m)
    OBVIOUS
  <2>3. k * (n - m) \in Int
    OBVIOUS
  <2> QED
    BY <1>1, <2>1, <2>2, <2>3
<1> QED
  BY <1>1, <1>2

LEMMA Worths ==
    ASSUME NEW m \in Nat, NEW n \in Nat
    PROVE  /\ Worth(n) \in Nat /\ Worth(n + 1) = Worth(n) + 2 * Cardinality(Names)
           /\ m <= n => Worth(m) <= Worth(n)
           /\ MaxEvents = 1 + MaxMoves + Worth(MaxFaults)
<1>1. Cardinality(Names) \in Nat /\ 2 * Cardinality(Names) \in Nat
  BY PartOfNames
<1>2. 2 * MaxFaults * Cardinality(Names) = 2 * Cardinality(Names) * MaxFaults
  BY <1>1, Bounds
<1> QED
  BY <1>1, <1>2, Products DEF Worth, MaxEvents

(* What has been sent, is being sent and would be sent next, against what  *)
(* the network and the faults have given cause for.                        *)
Cause == (MaxMoves - budget["change"]) + Worth(MaxFaults - budget["fault"])

RoomInv ==
    wpc \in {"idle", "sending"} =>
        Len(sent) + Cardinality(todo) + Cardinality(Behind) <= Cause


LEMMA RoomTypes ==
    ASSUME Known
    PROVE  /\ Len(sent) \in Nat /\ todo \in SUBSET Names /\ Behind \in SUBSET Names
           /\ Cardinality(todo) \in Nat /\ Cardinality(Behind) \in Nat
           /\ Cardinality(Names) \in Nat
           /\ Cardinality(todo) <= Cardinality(Names)
           /\ Cardinality(Behind) <= Cardinality(Names)
           /\ MaxMoves - budget["change"] \in Nat /\ MaxFaults - budget["fault"] \in Nat
           /\ Worth(MaxFaults - budget["fault"]) \in Nat
<1>1. todo \in SUBSET Names /\ Behind \in SUBSET Names /\ Len(sent) \in Nat
  BY LenProperties DEF Known, TypedWatch, Behind
<1>2. MaxMoves - budget["change"] \in Nat /\ MaxFaults - budget["fault"] \in Nat
  BY BudgetLeft, Bounds DEF Known, ChangesLeft, FaultsPaid
<1>3. Worth(MaxFaults - budget["fault"]) \in Nat
  BY <1>2, Worths
<1> QED
  BY <1>1, <1>2, <1>3, PartOfNames

(* A snapshot: the baseline, or one that is compared.                      *)
LEMMA SnapshotHasRoom ==
    ASSUME Known, Known', RoomInv, Baseline \/ Tick
    PROVE  RoomInv'
<1> DEFINE N == Cardinality(Names)
<1>1. /\ todo = {} /\ prev = cur /\ wpc \in {"start", "idle"}
      /\ wpc = "start" => sent = <<>>
      /\ caller = "Watch" /\ walking /\ left = {}
      /\ cur' = got /\ seen' = seen /\ sent' = sent
  BY DEF Baseline, Tick, Done, Known, WatchInv
<1>2. Cardinality({}) = 0 /\ (wpc = "start" => Len(sent) = 0)
  BY <1>1, FS_EmptySet
<1>3. lost = {} => got = seen /\ Behind' = {}
  BY <1>1 DEF Known, WalkInv, TypedWalk, TypedWatch, Behind
<1>4. /\ budget \in Budgets /\ Len(sent) \in Nat /\ N \in Nat
      /\ MaxMoves - budget["change"] \in Nat /\ MaxFaults - budget["fault"] \in Nat
      /\ Worth(MaxFaults - budget["fault"]) \in Nat /\ Cardinality(Behind) \in Nat
  BY RoomTypes DEF Known, TypedWatch
<1>5. /\ Cardinality(todo') \in Nat /\ Cardinality(todo') <= N
      /\ Cardinality(Behind') \in Nat /\ Cardinality(Behind') <= N
  <2>1. Behind' \in SUBSET Names /\ todo' \in SUBSET Names
    BY DEF Behind, Known, TypedWatch
  <2> QED
    BY <2>1, PartOfNames
<1>6. Cause \in Nat /\ (budget' = budget => Cause' = Cause)
  BY <1>4 DEF Cause
<1>7. lost # {} /\ budget' = Spent => Cause' = Cause + 2 * N
  <2> SUFFICES ASSUME lost # {}, budget' = Spent PROVE Cause' = Cause + 2 * N
    OBVIOUS
  <2>1. budget'["change"] = budget["change"] /\ budget'["fault"] = budget["fault"] - 1
    BY <1>4, Spending DEF Spent
  <2>2. MaxFaults - (budget["fault"] - 1) = (MaxFaults - budget["fault"]) + 1
    BY BudgetLeft, Bounds
  <2>3. Worth((MaxFaults - budget["fault"]) + 1) = Worth(MaxFaults - budget["fault"]) + 2 * N
    BY <1>4, Worths
  <2>4. Cause' = (MaxMoves - budget["change"]) + Worth((MaxFaults - budget["fault"]) + 1)
    BY <2>1, <2>2 DEF Cause
  <2> HIDE DEF N
  <2> QED
    BY <1>4, <2>3, <2>4 DEF Cause
<1>8. wpc = "idle" => Len(sent) + Cardinality(Behind) <= Cause
  BY <1>1, <1>2, <1>4, <1>6 DEF RoomInv
<1>9. SUFFICES Len(sent) + Cardinality(todo') + Cardinality(Behind') <= Cause'
  BY <1>1 DEF RoomInv
<1> HIDE DEF N
<1>10. CASE Baseline
  <2>1. budget' = Spent /\ todo' = {} /\ wpc = "start"
    BY <1>1, <1>10 DEF Baseline
  <2>2. CASE lost = {}
    <3>1. Cause' = Cause /\ Cardinality(todo') = 0 /\ Cardinality(Behind') = 0
      BY <1>2, <1>3, <1>6, <2>1, <2>2 DEF Spent
    <3> QED
      BY <1>2, <1>6, <2>1, <3>1
  <2>3. CASE lost # {}
    <3>1. Cause' = Cause + 2 * N /\ Cardinality(todo') = 0 /\ Len(sent) = 0
      BY <1>2, <1>7, <2>1, <2>3
    <3> QED
      BY <1>4, <1>5, <1>6, <3>1
  <2> QED
    BY <2>2, <2>3
<1>11. CASE Tick
  <2>1. /\ wpc = "idle" /\ todo' = {i \in Names : cur[i] # got[i]}
        /\ budget' = IF todo' = {} THEN budget ELSE Spent
    BY <1>1, <1>11 DEF Tick, diff
  <2>2. CASE lost = {}
    <3>1. todo' = Behind
      BY <1>3, <2>1, <2>2 DEF Behind
    <3>2. wpc = "idle" /\ Cause' = Cause /\ Cardinality(Behind') = 0
      BY <1>2, <1>3, <1>6, <2>1, <2>2 DEF Spent
    <3>3. Cardinality(todo') = Cardinality(Behind)
      BY <3>1
    <3> QED
      BY <1>4, <1>6, <1>8, <3>2, <3>3
  <2>3. CASE todo' = {}
    <3>1. Behind' = Behind /\ Cause' = Cause /\ Cardinality(todo') = 0
      BY <1>1, <1>2, <1>6, <2>1, <2>3 DEF Behind
    <3> QED
      BY <1>4, <1>6, <1>8, <2>1, <3>1
  <2>4. CASE lost # {} /\ todo' # {}
    <3>1. Cause' = Cause + 2 * N
      BY <1>7, <2>1, <2>4
    <3> QED
      BY <1>4, <1>5, <1>6, <1>8, <2>1, <3>1
  <2> QED
    BY <2>2, <2>3, <2>4
<1> QED
  BY <1>10, <1>11

LEMMA StepRoom ==
    ASSUME Known, Known', RoomInv, [Next]_vars
    PROVE  RoomInv'
<1>1. CASE UNCHANGED <<wpc, sent, todo, cur, seen, budget>>
  BY <1>1 DEF RoomInv, Behind, Cause
<1>2. ASSUME NEW i \in Names, Skip(i) \/ ReadAddrs(i) \/ ReadFails(i) PROVE RoomInv'
  <2>1. UNCHANGED <<wpc, sent, todo, cur>> /\ (Looked(i) \/ Missed(i))
    BY <1>2, VisitStep DEF LooksAt, Known
  <2>2. CASE UNCHANGED <<seen, budget>>
    BY <1>1, <2>1, <2>2
  <2>3. CASE ~UNCHANGED <<seen, budget>>
    <3>1. /\ seen' = [seen EXCEPT ![i] = Looks(i, flags)]
          /\ budget' = [budget EXCEPT !["change"] = @ - 1]
      BY <2>1, <2>3 DEF Looked, Missed, Sees
    <3>2. budget'["change"] = budget["change"] - 1 /\ budget'["fault"] = budget["fault"]
      BY <3>1, Spending DEF Known, TypedWatch
    <3>3. Behind' \subseteq Behind \cup {i}
      BY <2>1, <3>1 DEF Behind, Known, TypedWatch
    <3>4. Behind \in SUBSET Names /\ Behind' \in SUBSET Names
      BY DEF Behind
    <3>5. Cardinality(Behind') <= Cardinality(Behind) + 1 /\ Cardinality(Behind') \in Nat
      BY <3>3, <3>4, PartOfNames, OneMore
    <3>6. Cause' = Cause + 1 /\ Cause \in Nat
      <4>1. /\ MaxMoves - (budget["change"] - 1) = (MaxMoves - budget["change"]) + 1
            /\ MaxMoves - budget["change"] \in Nat /\ Worth(MaxFaults - budget["fault"]) \in Nat
        BY BudgetLeft, RoomTypes, Bounds
      <4>2. Cause' = (MaxMoves - (budget["change"] - 1)) + Worth(MaxFaults - budget["fault"])
        BY <3>2 DEF Cause
      <4> QED
        BY <4>1, <4>2 DEF Cause
    <3>7. /\ Len(sent) \in Nat /\ Cardinality(todo) \in Nat /\ Cardinality(Behind) \in Nat
      BY RoomTypes
    <3> QED
      BY <2>1, <3>5, <3>6, <3>7 DEF RoomInv
  <2> QED
    BY <2>2, <2>3
<1>3. ASSUME NEW i \in Names, Send(i) PROVE RoomInv'
  <2>1. /\ UNCHANGED <<cur, seen, budget>> /\ wpc = "sending"
        /\ i \in todo /\ todo' = todo \ {i}
        /\ sent' = Append(sent, [key |-> i, old |-> prev[i], new |-> cur[i]])
    BY <1>3 DEF Send
  <2>2. [key |-> i, old |-> prev[i], new |-> cur[i]] \in [key : Names, old : Seq(Nat), new : Seq(Nat)]
    BY DEF Known, TypedWatch
  <2>3. Len(sent') = Len(sent) + 1
    BY <2>1, <2>2, AppendProperties DEF Known, TypedWatch
  <2>4. Cardinality(todo') <= Cardinality(todo) - 1 /\ Cardinality(todo') \in Nat
    <3>1. todo \in SUBSET Names /\ todo' \in SUBSET (todo \ {i}) /\ todo' \in SUBSET Names
      BY <2>1, RoomTypes
    <3> QED
      BY <2>1, <3>1, PartOfNames, OneLess
  <2>5. Behind' = Behind /\ Cause' = Cause
    BY <2>1 DEF Behind, Cause
  <2>6. /\ Len(sent) \in Nat /\ Cardinality(todo) \in Nat /\ Cardinality(Behind) \in Nat
        /\ Cause \in Nat
    BY RoomTypes DEF Cause
  <2> QED
    BY <2>1, <2>3, <2>4, <2>5, <2>6 DEF RoomInv
<1>4. CASE Baseline \/ Tick
  BY <1>4, SnapshotHasRoom
<1>5. CASE CurrentIPs \/ Stop
  BY <1>5 DEF CurrentIPs, Stop, Known, WatchInv, RoomInv
<1>6. CASE AddressesChange \/ (\E i \in Names : UpOrDown(i)) \/ List \/ ListFails \/ Cancel \/ UNCHANGED vars
  BY <1>1, <1>6 DEF AddressesChange, UpOrDown, Move, List, ListFails, Begin, Cancel, vars, watch
<1> QED
  BY <1>2, <1>3, <1>4, <1>5, <1>6 DEF Next, Visit


----------------------------------------------------------------------------
(* The refinement.                                                         *)

(* EventPipeline's assumptions hold of what stands for its constants.      *)
LEMMA IsPipeline == P!PipelineAssumption
<1>1. <<>> \notin SortedLists
  <2> SUFFICES ASSUME NEW S \in SUBSET Entries, S # {}, IsFiniteSet(S) PROVE SortedIPs(S) # <<>>
    BY DEF SortedLists
  <2>1. Cardinality(S) \in Nat /\ Cardinality(S) # 0
    BY FS_CardinalityType, FS_EmptySet
  <2>2. Len(SortedIPs(S)) = Cardinality(S)
    <3>1. SortedIPs(S) \in Seq(Nat) /\ DOMAIN SortedIPs(S) = 1 .. Cardinality(S)
      BY SortedIPsType DEF SortedIPs
    <3> QED
      BY <2>1, <3>1, LenProperties
  <2>3. Len(<<>>) = 0
    OBVIOUS
  <2> QED
    BY <2>1, <2>2, <2>3
<1>2. MaxEvents \in Nat \ {0}
  BY Bounds, Worths
<1> QED
  BY <1>1, <1>2, Bounds, LocalWatchAssumption DEF P!PipelineAssumption, P!Watchers

LEMMA InitRefines == ASSUME Init PROVE P!Init
<1>1. seen \in [Names -> P!Lists]
  BY LooksAreLists, LooksAreDescribed DEF Init
<1>2. \A k \in Names \cup {Public} : Keyed(Nothing)[k] = <<>>
  BY DEF Keyed, Nothing
<1>3. Keyed(Nothing) = [k \in P!Keys |-> <<>>]
  BY <1>2 DEF Keyed, P!Keys
<1> QED
  BY <1>1, <1>3 DEF Init, P!Init, P!Watchers, NoneKeyed, P!Keys

LEMMA Quiet ==
    ASSUME UNCHANGED <<seen, budget, wpc, prev, cur, todo, sent, cancelled>>
    PROVE  UNCHANGED P!vars
BY DEF P!vars, P!network, P!watch, P!channel, P!engine, Keyed

LEMMA Gotos ==
    ASSUME NEW x, NEW y
    PROVE  [[w \in {"local", "public"} |-> IF w = "local" THEN x ELSE "done"] EXCEPT !["local"] = y]
               = [w \in {"local", "public"} |-> IF w = "local" THEN y ELSE "done"]
OBVIOUS

LEMMA VisitRefines ==
    ASSUME Known, NEW i \in Names, Skip(i) \/ ReadAddrs(i) \/ ReadFails(i)
    PROVE  P!NetworkChange(i) \/ UNCHANGED P!vars
<1>1. LooksAt(i) /\ (Looked(i) \/ Missed(i))
  BY VisitStep DEF Known
<1>2. UNCHANGED <<wpc, prev, cur, todo, sent, cancelled>> /\ i \in left
  BY <1>1 DEF LooksAt
<1>3. CASE UNCHANGED <<seen, budget>>
  BY <1>2, <1>3, Quiet
<1>4. CASE ~UNCHANGED <<seen, budget>>
  <2>1. /\ caller = "Watch" /\ seen[i] # Looks(i, flags)
        /\ seen' = [seen EXCEPT ![i] = Looks(i, flags)]
        /\ budget' = [budget EXCEPT !["change"] = @ - 1]
    BY <1>1, <1>4 DEF Looked, Missed, Sees
  <2>2. budget["change"] > 0
    <3>1. i \in Unseen /\ Unseen \in SUBSET Names
      BY <1>2, <2>1 DEF Unseen, View
    <3>2. Cardinality(Unseen) \in Nat /\ Cardinality(Unseen) # 0
      BY <3>1, PartOfNames, FS_EmptySet
    <3> QED
      BY <2>1, <3>2, BudgetLeft
  <2>3. Looks(i, flags) \in P!Lists \ {seen[i]}
    BY <2>1, LooksAreLists DEF Known, TypedNetwork
  <2>4. UNCHANGED <<P!watch, P!channel, cancelled, P!engine>>
    BY <1>2 DEF P!watch, P!channel, P!engine, Keyed
  <2> QED
    BY <2>1, <2>2, <2>3, <2>4 DEF P!NetworkChange, P!Spend
<1> QED
  BY <1>3, <1>4


(* What a walk of the watcher has read is a snapshot of what it saw.       *)
LEMMA GotIsSnapshot ==
    ASSUME Known, caller = "Watch", walking, left = {}
    PROVE  /\ Keyed(got) = [k \in P!Keys |-> IF k = Public THEN <<>> ELSE P!Snapshot(lost)[k]]
           /\ \A i \in Names : got[i] = P!Snapshot(lost)[i] /\ i # Public
<1>1. \A i \in Names : got[i] = (IF i \in Names \ lost THEN seen[i] ELSE <<>>) /\ i # Public
  BY LocalWatchAssumption DEF Known, WalkInv
<1>2. \A i \in Names : got[i] = P!Snapshot(lost)[i] /\ i # Public
  BY <1>1 DEF P!Snapshot, P!Keys
<1> QED
  BY <1>2 DEF Keyed, P!Keys

LEMMA KeyedPublic ==
    ASSUME NEW f, NEW k \in P!Keys
    PROVE  Keyed(f)[k] = IF k = Public THEN <<>> ELSE f[k]
BY DEF Keyed, P!Keys

LEMMA BaselineRefines ==
    ASSUME Known, Baseline
    PROVE  P!LocalBaseline(lost)
<1>1. /\ wpc = "start" /\ caller = "Watch" /\ walking /\ left = {}
      /\ prev' = got /\ cur' = got /\ wpc' = "idle" /\ budget' = Spent
      /\ UNCHANGED <<seen, todo, sent, cancelled>>
  BY DEF Baseline, Done
<1>2. P!TakeSnapshot(lost)
  BY <1>1, BudgetLeft DEF P!TakeSnapshot, P!Spend, Spent
<1>3. /\ Keyed(got) = [k \in P!Keys |-> IF k = Public THEN Keyed(cur)[k] ELSE P!Snapshot(lost)[k]]
      /\ Keyed(got) = [k \in P!Keys |-> IF k = Public THEN Keyed(prev)[k] ELSE P!Snapshot(lost)[k]]
  BY <1>1, GotIsSnapshot, KeyedPublic
<1>4. Keyed(prev)' = Keyed(got) /\ Keyed(cur)' = Keyed(got)
  BY <1>1 DEF Keyed
<1> QED
  BY <1>1, <1>2, <1>3, <1>4, Gotos DEF P!LocalBaseline, P!Goto, P!channel, P!engine

LEMMA TickRefines ==
    ASSUME Known, Tick
    PROVE  P!LocalTick(lost) \/ UNCHANGED P!vars
<1>1. /\ wpc = "idle" /\ caller = "Watch" /\ walking /\ left = {}
      /\ prev' = prev /\ cur' = got /\ todo' = diff(prev, got)
      /\ wpc' = IF todo' = {} THEN "idle" ELSE "sending"
      /\ budget' = IF todo' = {} THEN budget ELSE Spent
      /\ UNCHANGED <<seen, sent, cancelled>>
  BY DEF Tick, Done
<1>2. todo = {} /\ prev = cur
  BY <1>1 DEF Known, WatchInv
<1>3. CASE todo' = {}
  <2>1. cur' = cur
    BY <1>1, <1>2, <1>3 DEF diff, Known, TypedWalk, TypedWatch
  <2> QED
    BY <1>1, <1>2, <1>3, <2>1, Quiet
<1>4. CASE todo' # {}
  <2>1. P!TakeSnapshot(lost)
    BY <1>1, <1>4, BudgetLeft DEF P!TakeSnapshot, P!Spend, Spent
  <2>2. Keyed(got) = [k \in P!Keys |-> IF k = Public THEN Keyed(cur)[k] ELSE P!Snapshot(lost)[k]]
    BY <1>1, GotIsSnapshot, KeyedPublic
  <2>3. Keyed(cur)' = Keyed(got) /\ Keyed(prev)' = Keyed(prev)
    BY <1>1 DEF Keyed
  <2>4. todo' = P!Diff(Keyed(prev), P!Snapshot(lost))
    <3>1. \A i \in Names : Keyed(prev)[i] = prev[i] /\ got[i] = P!Snapshot(lost)[i]
      BY <1>1, GotIsSnapshot, KeyedPublic DEF P!Keys
    <3> QED
      BY <1>1, <3>1 DEF diff, P!Diff
  <2> QED
    BY <1>1, <1>2, <1>4, <2>1, <2>2, <2>3, <2>4, Gotos
       DEF P!LocalTick, P!Goto, P!channel, P!engine
<1> QED
  BY <1>3, <1>4

LEMMA SendRefines ==
    ASSUME Known, RoomInv, NEW i \in Names, Send(i)
    PROVE  P!LocalSend(i)
<1>1. /\ wpc = "sending" /\ i \in todo
      /\ cur[i] = <<>> => \A j \in todo : cur[j] = <<>>
      /\ sent' = Append(sent, [key |-> i, old |-> prev[i], new |-> cur[i]])
      /\ todo' = todo \ {i}
      /\ IF todo' = {} THEN wpc' = "idle" /\ prev' = cur ELSE UNCHANGED <<wpc, prev>>
      /\ UNCHANGED <<cur, seen, budget, cancelled>>
  BY DEF Send
<1>2. \A j \in Names : j \in P!Keys /\ Keyed(cur)[j] = cur[j] /\ Keyed(prev)[j] = prev[j]
  BY LocalWatchAssumption, KeyedPublic DEF P!Keys
<1>3. P!NextInDiff(i)
  BY <1>1, <1>2 DEF P!NextInDiff
<1>4. Len(sent) < MaxEvents
  <2>1. /\ Cardinality(todo) \in Nat /\ Cardinality(todo) # 0 /\ Cardinality(Behind) \in Nat
        /\ Len(sent) \in Nat
    BY <1>1, RoomTypes, PartOfNames, FS_EmptySet
  <2>2. Cause <= MaxMoves + Worth(MaxFaults) /\ Cause \in Nat /\ Worth(MaxFaults) \in Nat
    <3>1. Worth(MaxFaults - budget["fault"]) <= Worth(MaxFaults) /\ Worth(MaxFaults) \in Nat
      <4>1. MaxFaults - budget["fault"] \in Nat /\ MaxFaults \in Nat
        BY RoomTypes, Bounds
      <4>2. MaxFaults - budget["fault"] <= MaxFaults
        BY BudgetLeft, Bounds
      <4> QED
        BY <4>1, <4>2, Worths
    <3>2. MaxMoves - budget["change"] <= MaxMoves
      BY BudgetLeft, Bounds
    <3> QED
      BY <3>1, <3>2, RoomTypes, Bounds DEF Cause
  <2>3. Len(sent) + Cardinality(todo) + Cardinality(Behind) <= Cause
    BY <1>1 DEF RoomInv
  <2>4. MaxEvents = 1 + MaxMoves + Worth(MaxFaults)
    BY Worths, Bounds
  <2> QED
    BY <2>1, <2>2, <2>3, <2>4, Bounds
<1>5. P!Put(i)
  BY <1>1, <1>2, <1>4 DEF P!Put, P!EventOf
<1>6. todo' \cap Names = todo'
  BY <1>1 DEF Known, TypedWatch
<1>7. Keyed(cur) = [k \in P!Keys |-> IF k = Public THEN Keyed(prev)[k] ELSE Keyed(cur)[k]]
  BY KeyedPublic DEF Keyed, P!Keys
<1>8. Keyed(cur)' = Keyed(cur)
  BY <1>1 DEF Keyed
<1>9. IF todo' = {} THEN wpc' = "idle" /\ Keyed(prev)' = Keyed(cur)
                    ELSE wpc' = wpc /\ Keyed(prev)' = Keyed(prev)
  BY <1>1 DEF Keyed
<1> QED
  BY <1>1, <1>3, <1>5, <1>6, <1>7, <1>8, <1>9, Gotos
     DEF P!LocalSend, P!Goto, P!network, P!engine

LEMMA StepRefines ==
    ASSUME Known, RoomInv, [Next]_vars
    PROVE  [P!Next]_(P!vars)
<1>1. ASSUME NEW i \in Names, Skip(i) \/ ReadAddrs(i) \/ ReadFails(i) PROVE [P!Next]_(P!vars)
  BY <1>1, VisitRefines DEF P!Next
<1>2. CASE Baseline
  <2>1. lost \in SUBSET Names
    BY DEF Known, TypedWalk
  <2> QED
    BY <1>2, <2>1, BaselineRefines DEF P!Next, P!LocalStep
<1>3. CASE Tick
  <2>1. lost \in SUBSET Names
    BY DEF Known, TypedWalk
  <2> QED
    BY <1>3, <2>1, TickRefines DEF P!Next, P!LocalStep
<1>4. ASSUME NEW i \in Names, Send(i) PROVE [P!Next]_(P!vars)
  BY <1>4, SendRefines DEF P!Next, P!LocalStep
<1>5. CASE Stop
  <2>1. /\ cancelled /\ wpc \in {"idle", "sending"} /\ wpc' = "done"
        /\ UNCHANGED <<prev, cur, todo, sent, seen, budget, cancelled>>
    BY <1>5 DEF Stop
  <2>2. P!WatcherStop("local")
    BY <2>1, Gotos DEF P!WatcherStop, P!Goto, P!network, P!channel, P!engine, Keyed
  <2> QED
    BY <2>2 DEF P!Next, P!Watchers
<1>6. CASE Cancel
  <2>1. P!Cancel
    BY <1>6 DEF Cancel, P!Cancel, network, watch, P!network, P!watch, P!channel, P!engine, Keyed
  <2> QED
    BY <2>1 DEF P!Next
<1>7. CASE AddressesChange \/ (\E i \in Names : UpOrDown(i)) \/ List \/ ListFails \/ CurrentIPs \/ UNCHANGED vars
  <2>1. UNCHANGED <<seen, budget, wpc, prev, cur, todo, sent, cancelled>>
    BY <1>7 DEF AddressesChange, UpOrDown, Move, List, ListFails, Begin, CurrentIPs, Done, vars, watch
  <2> QED
    BY <2>1, Quiet
<1> QED
  BY <1>1, <1>2, <1>3, <1>4, <1>5, <1>6, <1>7 DEF Next, Visit

(* The watcher's walk over the interfaces (local.go's snapshot, Watch and  *)
(* diff) implements EventPipeline's local watcher, whose snapshot is one   *)
(* look at all of them: what it reports is what EventPipeline allows.      *)
THEOREM WatcherRefines == Spec => WatcherImplementsPipeline
<1>1. Init => P!Init /\ RoomInv
  BY InitRefines DEF Init, RoomInv
<1>2. Known /\ Known' /\ RoomInv /\ [Next]_vars => RoomInv'
  BY StepRoom
<1>3. Known /\ RoomInv /\ [Next]_vars => [P!Next]_(P!vars)
  BY StepRefines
<1> QED
  BY <1>1, <1>2, <1>3, KnownHolds, PTL DEF Spec, WatcherImplementsPipeline, P!Spec

----------------------------------------------------------------------------
(* So what is proved of EventPipeline's watcher holds of the walk.         *)

PP == INSTANCE EventPipelineProofs WITH
        Interfaces <- Names, Addrs <- SortedLists, NoAddrs <- <<>>,
        Enabled <- {"local"}, ChanCap <- MaxEvents,
        MaxChanges <- MaxMoves, MaxAnswers <- 0,
        addrs <- seen,
        wpc <- [w \in {"local", "public"} |-> IF w = "local" THEN wpc ELSE "done"],
        prev <- Keyed(prev), cur <- Keyed(cur), events <- sent, closed <- FALSE,
        epc <- "recv", inHand <- [key |-> Public, old |-> <<>>, new |-> <<>>],
        last <- NoneKeyed, state <- NoneKeyed, changedKeys <- {}

(* P and PP are two instances of the same definitions.                     *)
LEMMA SamePipeline ==
    /\ P!PipelineAssumption => PP!PipelineAssumption
    /\ P!Init => PP!Init
    /\ [P!Next]_(P!vars) => [PP!Next]_(PP!vars)
<1> USE DEF P!Watchers, PP!Watchers, P!Keys, PP!Keys, P!Lists, PP!Lists
<1>0. P!PipelineAssumption => PP!PipelineAssumption
  BY DEF P!PipelineAssumption, PP!PipelineAssumption
<1>1. P!Init => PP!Init
  BY Zenon DEF P!Init, PP!Init
<1>2. [P!Next]_(P!vars) => [PP!Next]_(PP!vars)
  BY Zenon
  DEF P!vars, PP!vars, P!network, PP!network, P!watch, PP!watch, P!channel, PP!channel,
      P!engine, PP!engine, P!Spend, PP!Spend, P!NetworkChange, PP!NetworkChange,
      P!Snapshot, PP!Snapshot, P!TakeSnapshot, PP!TakeSnapshot, P!Goto, PP!Goto,
      P!LocalBaseline, PP!LocalBaseline, P!Diff, PP!Diff, P!LocalTick, PP!LocalTick,
      P!NextInDiff, PP!NextInDiff, P!EventOf, PP!EventOf, P!Put, PP!Put,
      P!LocalSend, PP!LocalSend, P!WatcherStop, PP!WatcherStop,
      P!PublicBaseline, PP!PublicBaseline, P!PublicTick, PP!PublicTick,
      P!PublicSend, PP!PublicSend, P!CloseEvents, PP!CloseEvents, P!Changed, PP!Changed,
      P!Drop, PP!Drop, P!Accept, PP!Accept, P!DispatchReturns, PP!DispatchReturns,
      P!RunReturns, PP!RunReturns, P!Cancel, PP!Cancel, P!LocalStep, PP!LocalStep,
      P!PublicStep, PP!PublicStep, P!EngineStep, PP!EngineStep, P!Next, PP!Next
<1> QED
  BY <1>0, <1>1, <1>2

(* What the watcher sends is an unbroken chain: every event about an       *)
(* interface is a change and starts where the one before it ended, and the *)
(* last one ends at what the watcher compares with next, or, if it has not *)
(* been sent, at what it compared with before.                             *)
SentIsAChain ==
    /\ \A n \in 1 .. Len(sent) : sent[n].old # sent[n].new
    /\ \A m, n \in 1 .. Len(sent) :
            m < n /\ sent[m].key = sent[n].key
            /\ (\A j \in 1 .. Len(sent) : sent[j].key = sent[n].key => j <= m \/ j >= n)
                => sent[m].new = sent[n].old
    /\ \A n \in 1 .. Len(sent) :
            (\A m \in 1 .. Len(sent) : sent[m].key = sent[n].key => m <= n)
                => sent[n].new = IF sent[n].key \in todo THEN prev[sent[n].key]
                                 ELSE cur[sent[n].key]

(* The chain, for any walk over any interfaces whose flags and addresses   *)
(* change meanwhile, with any calls failing (local.go's Watch and diff).   *)
THEOREM WatcherSendsAChain == Spec => []SentIsAChain
<1>1. P!Spec => PP!Spec
  BY SamePipeline, PTL DEF P!Spec, PP!Spec
<1>2. PP!Spec => []PP!Chain
  BY IsPipeline, SamePipeline, PP!ChainHolds
<1>3. PP!Chain /\ Known => SentIsAChain
  <2> SUFFICES ASSUME PP!Chain, Known PROVE SentIsAChain
    OBVIOUS
  <2>1. PP!Linked(sent) /\ PP!EndsAt(sent, PP!Sent)
    BY DEF PP!Chain
  <2>2. \A n \in 1 .. Len(sent) : sent[n].key \in Names
    <3>1. sent \in Seq([key : Names, old : Seq(Nat), new : Seq(Nat)])
      BY DEF Known, TypedWatch
    <3>2. \A n \in 1 .. Len(sent) : sent[n] \in [key : Names, old : Seq(Nat), new : Seq(Nat)]
      BY <3>1, LenProperties
    <3> QED
      BY <3>2
  <2>3. \A i \in Names : PP!Sent[i] = IF i \in todo THEN prev[i] ELSE cur[i]
    BY LocalWatchAssumption DEF PP!Sent, PP!Keys, Keyed
  <2> QED
    BY <2>1, <2>2, <2>3 DEF SentIsAChain, PP!Linked, PP!EndsAt, PP!Slots, PP!Adjacent, PP!LastOf
<1> QED
  BY <1>1, <1>2, <1>3, WatcherRefines, KnownHolds, PTL DEF WatcherImplementsPipeline

=============================================================================
