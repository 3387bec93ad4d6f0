------------------------ MODULE PublicWatcherProofs ------------------------
(***************************************************************************)
(* Theorems about PublicWatcher, for any number of sources, any of them    *)
(* bad, and any set of addresses.                                          *)
(***************************************************************************)
EXTENDS PublicWatcher, TLAPS

USE DEF MaybeIP

----------------------------------------------------------------------------
(* No more votes, and no more voices, than sources asked.                  *)
AskedInv ==
    /\ \A v \in Addrs : votes[v] <= next - 1
    /\ honestSaid <= next - 1
    /\ badSaid <= next - 1

LEMMA InitTyped == ASSUME WatcherAssumption, Init PROVE TypeOK /\ AskedInv
<1>1. report \in [old : MaybeIP, new : MaybeIP]
  BY DEF Init
<1>2. N \in Nat /\ 0 \in 0 .. N /\ 1 \in 1 .. N + 1 /\ MaxMoves \in 0 .. MaxMoves
  BY DEF WatcherAssumption
<1>3. votes \in [Addrs -> 0 .. N]
  BY <1>2 DEF Init
<1>4. AskedInv
  BY DEF Init, AskedInv
<1> QED
  BY <1>1, <1>2, <1>3, <1>4 DEF Init, TypeOK

LEMMA StepTyped ==
    ASSUME WatcherAssumption, TypeOK, AskedInv, [Next]_vars
    PROVE  TypeOK' /\ AskedInv'
<1> USE DEF TypeOK, AskedInv, WatcherAssumption
<1>1. ASSUME AddressMoves PROVE TypeOK' /\ AskedInv'
  <2>0. moves' \in 0 .. MaxMoves
    <3>1. moves > 0 /\ moves' = moves - 1 /\ moves \in 0 .. MaxMoves /\ MaxMoves \in Nat
      BY <1>1 DEF AddressMoves
    <3> QED
      BY ONLY <3>1
  <2>1. truth' \in Addrs /\ moves' \in 0 .. MaxMoves /\ steady' \in BOOLEAN
    BY <1>1, <2>0 DEF AddressMoves
  <2>2. UNCHANGED <<pc, started, resolveVars, current, report, honestSaid, badSaid>>
    BY <1>1 DEF AddressMoves
  <2> QED
    BY <2>1, <2>2 DEF resolveVars
<1>2. ASSUME NEW got \in MaybeIP, Fetch(got) PROVE TypeOK' /\ AskedInv'
  <2>1. /\ next' = next + 1 /\ next <= N
        /\ honestSaid' \in {honestSaid, honestSaid + 1}
        /\ badSaid' \in {badSaid, badSaid + 1}
    BY <1>2 DEF Fetch
  <2>2. /\ votes' \in [Addrs -> Int]
        /\ \A v \in Addrs : votes'[v] \in {votes[v], votes[v] + 1}
    BY <1>2 DEF Fetch
  <2>3. AskedInv'
    BY <2>1, <2>2
  <2>4. votes' \in [Addrs -> 0 .. N]
    BY <2>1, <2>2
  <2> QED
    BY <1>2, <2>1, <2>3, <2>4 DEF Fetch
<1>3. ASSUME StartCounting PROVE TypeOK' /\ AskedInv'
  BY <1>3 DEF StartCounting, history
<1>4. ASSUME NEW v \in Addrs, Count(v) PROVE TypeOK' /\ AskedInv'
  BY <1>4 DEF Count, history
<1>5. ASSUME TakeBaseline PROVE TypeOK' /\ AskedInv'
  BY <1>5 DEF TakeBaseline, resolveVars, history
<1>6. ASSUME NothingNew PROVE TypeOK' /\ AskedInv'
  BY <1>6 DEF NothingNew, resolveVars, history
<1>7. ASSUME Report PROVE TypeOK' /\ AskedInv'
  BY <1>7 DEF Report, resolveVars, history
<1>8. ASSUME Tick PROVE TypeOK' /\ AskedInv'
  BY <1>8 DEF Tick
<1>9. ASSUME UNCHANGED vars PROVE TypeOK' /\ AskedInv'
  BY <1>9 DEF vars, resolveVars, history
<1> QED
  BY <1>1, <1>2, <1>3, <1>4, <1>5, <1>6, <1>7, <1>8, <1>9 DEF Next, WatchStep

(* Every variable keeps its type; no address gets more votes than there    *)
(* are sources.                                                            *)
THEOREM TypeCorrect == Spec => []TypeOK
<1>1. Init => TypeOK /\ AskedInv
  BY InitTyped, WatcherAssumption
<1>2. (TypeOK /\ AskedInv) /\ [Next]_vars => (TypeOK /\ AskedInv)'
  BY StepTyped, WatcherAssumption
<1> QED
  BY <1>1, <1>2, PTL DEF Spec

----------------------------------------------------------------------------
(* The vote.                                                               *)

LEMMA InitVote == ASSUME WatcherAssumption, Init PROVE VoteInv
BY DEF WatcherAssumption, Init, VoteInv, VotesInv, CountInv

LEMMA StepVote ==
    ASSUME WatcherAssumption, TypeOK, VoteInv, [Next]_vars
    PROVE  VoteInv'
<1> USE DEF TypeOK, VoteInv
<1>1. ASSUME AddressMoves PROVE VoteInv'
  BY <1>1 DEF AddressMoves, resolveVars, VotesInv, CountInv
<1>2. ASSUME NEW got \in MaybeIP, Fetch(got) PROVE VoteInv'
  <2>1. CountInv'
    BY <1>2 DEF Fetch, CountInv
  <2>2. VotesInv'
    <3>1. CASE got = NoIP
      BY <1>2, <3>1 DEF Fetch, VotesInv
    <3>2. CASE got # NoIP /\ next \in Bad
      BY <1>2, <3>2 DEF Fetch, VotesInv
    <3>3. CASE got # NoIP /\ next \notin Bad
      <4>1. got = truth
        BY <1>2, <3>3 DEF Fetch, Answers
      <4> QED
        BY <1>2, <3>3, <4>1 DEF Fetch, VotesInv
    <3> QED
      BY <3>1, <3>2, <3>3
  <2> QED
    BY <2>1, <2>2
<1>3. ASSUME StartCounting PROVE VoteInv'
  BY <1>3 DEF StartCounting, history, VotesInv, CountInv
<1>4. ASSUME NEW v \in Addrs, Count(v) PROVE VoteInv'
  BY <1>4 DEF Count, history, VotesInv, CountInv
<1>5. ASSUME TakeBaseline PROVE VoteInv'
  BY <1>5 DEF TakeBaseline, resolveVars, history, VotesInv, CountInv
<1>6. ASSUME NothingNew PROVE VoteInv'
  BY <1>6 DEF NothingNew, resolveVars, history, VotesInv, CountInv
<1>7. ASSUME Report PROVE VoteInv'
  BY <1>7 DEF Report, resolveVars, history, VotesInv, CountInv
<1>8. ASSUME Tick PROVE VoteInv'
  BY <1>8 DEF Tick, VotesInv, CountInv
<1>9. ASSUME UNCHANGED vars PROVE VoteInv'
  BY <1>9 DEF vars, resolveVars, history, VotesInv, CountInv
<1> QED
  BY <1>1, <1>2, <1>3, <1>4, <1>5, <1>6, <1>7, <1>8, <1>9 DEF Next, WatchStep

(* The votes count honest sources for the true address and at most the bad *)
(* ones for any other; the range loop keeps a maximum.                     *)
THEOREM VoteIsSound == Spec => []VoteInv
<1>1. Init => TypeOK /\ AskedInv /\ VoteInv
  BY InitTyped, InitVote, WatcherAssumption
<1>2. (TypeOK /\ AskedInv /\ VoteInv) /\ [Next]_vars => (TypeOK /\ AskedInv /\ VoteInv)'
  BY StepTyped, StepVote, WatcherAssumption
<1> QED
  BY <1>1, <1>2, PTL DEF Spec

(* A lookup in which honest answers outnumber the others, and the address  *)
(* stands still, leaves the watcher with the true address.                 *)
LEMMA WinnerIsTruth ==
    ASSUME TypeOK, VoteInv, pc = "counting", uncounted = {}, steady, honestSaid > badSaid
    PROVE  ok /\ best = truth
<1>1. votes[truth] >= honestSaid /\ votes[truth] <= bestCount
  BY DEF TypeOK, VoteInv, VotesInv, CountInv
<1>2. bestCount > 0 /\ bestCount > badSaid
  BY <1>1 DEF TypeOK
<1>3. best \in Addrs /\ bestCount = votes[best]
  BY <1>2 DEF VoteInv, CountInv
<1>4. best = truth
  BY <1>2, <1>3 DEF TypeOK, VoteInv, VotesInv
<1> QED
  BY <1>2, <1>4 DEF ok

LEMMA StepMajority ==
    ASSUME TypeOK, VoteInv, HonestMajorityWins, [Next]_vars
    PROVE  HonestMajorityWins'
<1> USE DEF HonestMajorityWins
<1>1. ASSUME TakeBaseline \/ NothingNew \/ Report PROVE HonestMajorityWins'
  <2>1. pc = "counting" /\ uncounted = {} /\ UNCHANGED <<truth, steady, honestSaid, badSaid>>
    BY <1>1 DEF TakeBaseline, NothingNew, Report, history
  <2>2. steady /\ honestSaid > badSaid => current' = truth
    BY <1>1, <2>1, WinnerIsTruth DEF TakeBaseline, NothingNew, Report
  <2> QED
    BY <2>1, <2>2
<1>2. ASSUME AddressMoves PROVE HonestMajorityWins'
  BY <1>2 DEF AddressMoves
<1>3. ASSUME \/ \E got \in MaybeIP : Fetch(got)
             \/ StartCounting
             \/ \E v \in Addrs : Count(v)
             \/ Tick
      PROVE  HonestMajorityWins'
  BY <1>3 DEF Fetch, StartCounting, Count, Tick
<1>4. ASSUME UNCHANGED vars PROVE HonestMajorityWins'
  BY <1>4 DEF vars, history
<1> QED
  BY <1>1, <1>2, <1>3, <1>4 DEF Next, WatchStep

(* Bad sources in the minority of those that answer never change what the  *)
(* watcher reports.                                                        *)
THEOREM MajorityWins == Spec => []HonestMajorityWins
<1>1. Init => HonestMajorityWins
  BY DEF Init, HonestMajorityWins
<1>2. TypeOK /\ VoteInv /\ HonestMajorityWins /\ [Next]_vars => HonestMajorityWins'
  BY StepMajority
<1> QED
  BY <1>1, <1>2, TypeCorrect, VoteIsSound, PTL DEF Spec

=============================================================================
