--------------------------- MODULE PublicWatcher ---------------------------
(***************************************************************************)
(* How the public watcher finds the address it reports: resolve asks its   *)
(* sources one after another, counts the addresses they echo in a map and  *)
(* takes the one with the most votes, in whatever order Go ranges over the *)
(* map.  Watch does this once for a baseline and then at every tick.       *)
(*                                                                         *)
(* The machine's address may move at any time, also between two fetches of *)
(* one lookup.  An honest source echoes the address at the moment of the   *)
(* fetch or fails (no connection, a timeout, no IPv4 in the body);         *)
(* a bad one (a captive portal, an error page, a proxy's exit) may answer  *)
(* anything.                                                               *)
(***************************************************************************)
EXTENDS Integers

CONSTANTS
    N,          \* number of sources, asked in the order 1 .. N
    Bad,        \* the sources that may answer anything
    Addrs,      \* public addresses
    NoIP,       \* "", or a failed fetch
    MaxMoves    \* bound: how often the machine's address changes

ASSUME WatcherAssumption ==
    /\ N \in Nat
    /\ Bad \subseteq 1 .. N
    /\ NoIP \notin Addrs
    /\ MaxMoves \in Nat

VARIABLES
    truth,      \* the machine's public address
    moves,      \* how often it can still move
    pc,         \* "asking", "counting", "idle"
    started,    \* Watch has its baseline behind it
    next,       \* resolve: the source it asks next
    votes,      \* resolve: votes
    uncounted,  \* resolve: the keys of votes its range loop has not seen
    best,       \* resolve: best
    bestCount,  \* resolve: bestCount
    current,    \* Watch: current
    report,     \* the event sent last: its Old and New
    steady,     \* history: truth has not moved since the last lookup began
    honestSaid, \* history: how many honest sources answered in that lookup
    badSaid     \* history: how many bad ones did

resolveVars == <<next, votes, uncounted, best, bestCount>>
history     == <<steady, honestSaid, badSaid>>
vars == <<truth, moves, pc, started, resolveVars, current, report, history>>

MaybeIP == Addrs \cup {NoIP}

TypeOK ==
    /\ truth \in Addrs /\ moves \in 0 .. MaxMoves
    /\ pc \in {"asking", "counting", "idle"} /\ started \in BOOLEAN
    /\ next \in 1 .. N + 1
    /\ votes \in [Addrs -> 0 .. N]
    /\ uncounted \subseteq Addrs
    /\ best \in MaybeIP /\ bestCount \in 0 .. N
    /\ current \in MaybeIP
    /\ report \in [old : MaybeIP, new : MaybeIP]
    /\ steady \in BOOLEAN /\ honestSaid \in 0 .. N /\ badSaid \in 0 .. N

Init ==
    /\ truth \in Addrs /\ moves = MaxMoves
    /\ pc = "asking" /\ started = FALSE
    /\ next = 1
    /\ votes = [v \in Addrs |-> 0]
    /\ uncounted = {} /\ best = NoIP /\ bestCount = 0
    /\ current = NoIP
    /\ report = [old |-> NoIP, new |-> NoIP]
    /\ steady = TRUE /\ honestSaid = 0 /\ badSaid = 0

(* The machine gets another public address.                                *)
AddressMoves ==
    /\ moves > 0 /\ moves' = moves - 1
    /\ \E a \in Addrs \ {truth} : truth' = a
    /\ steady' = FALSE
    /\ UNCHANGED <<pc, started, resolveVars, current, report, honestSaid, badSaid>>

----------------------------------------------------------------------------
(* resolve.                                                                *)

(* fetch: what source s can answer now.                                    *)
Answers(s) == IF s \in Bad THEN MaybeIP ELSE {truth, NoIP}

(* One round of the loop over w.sources.                                   *)
Fetch(got) ==
    /\ pc = "asking" /\ next <= N
    /\ got \in Answers(next)
    /\ next' = next + 1
    /\ votes' = IF got = NoIP THEN votes ELSE [votes EXCEPT ![got] = @ + 1]
    /\ honestSaid' = IF next \notin Bad /\ got # NoIP THEN honestSaid + 1 ELSE honestSaid
    /\ badSaid' = IF next \in Bad /\ got # NoIP THEN badSaid + 1 ELSE badSaid
    /\ UNCHANGED <<truth, moves, pc, started, uncounted, best, bestCount, current, report, steady>>

StartCounting ==
    /\ pc = "asking" /\ next = N + 1
    /\ pc' = "counting"
    /\ uncounted' = {v \in Addrs : votes[v] > 0}
    /\ best' = NoIP /\ bestCount' = 0
    /\ UNCHANGED <<truth, moves, started, next, votes, current, report, history>>

(* Mutant: bestCount is never raised, so the last key of the range wins.   *)
CountForgets(v) ==
    /\ pc = "counting" /\ v \in uncounted
    /\ uncounted' = uncounted \ {v}
    /\ IF votes[v] > 0 THEN best' = v /\ bestCount' = 1
                       ELSE UNCHANGED <<best, bestCount>>
    /\ UNCHANGED <<truth, moves, pc, started, next, votes, current, report, history>>

(* One round of the range loop over votes, in any order.                   *)
Count(v) ==
    /\ pc = "counting" /\ v \in uncounted
    /\ uncounted' = uncounted \ {v}
    /\ IF votes[v] > bestCount THEN best' = v /\ bestCount' = votes[v]
                               ELSE UNCHANGED <<best, bestCount>>
    /\ UNCHANGED <<truth, moves, pc, started, next, votes, current, report, history>>

----------------------------------------------------------------------------
(* Watch.                                                                  *)

ok == bestCount > 0

(* The baseline: current is best, or stays "" when nobody answered.        *)
TakeBaseline ==
    /\ pc = "counting" /\ uncounted = {} /\ ~started
    /\ current' = IF ok THEN best ELSE current
    /\ started' = TRUE
    /\ pc' = "idle"
    /\ UNCHANGED <<truth, moves, resolveVars, report, history>>

(* if !ok || ip == current { continue }                                    *)
NothingNew ==
    /\ pc = "counting" /\ uncounted = {} /\ started
    /\ ~ok \/ best = current
    /\ pc' = "idle"
    /\ UNCHANGED <<truth, moves, started, resolveVars, current, report, history>>

(* Mutant: current is not moved, so that every tick reports again.         *)
ReportForgets ==
    /\ pc = "counting" /\ uncounted = {} /\ started
    /\ ok /\ best # current
    /\ report' = [old |-> current, new |-> best]
    /\ pc' = "idle"
    /\ UNCHANGED <<truth, moves, started, resolveVars, current, history>>

(* Otherwise an event, and current moves (module EventPipeline has the     *)
(* send, which may block).                                                 *)
Report ==
    /\ pc = "counting" /\ uncounted = {} /\ started
    /\ ok /\ best # current
    /\ report' = [old |-> current, new |-> best]
    /\ current' = best
    /\ pc' = "idle"
    /\ UNCHANGED <<truth, moves, started, resolveVars, history>>

(* Mutant: votes outlives the lookup.                                      *)
TickKeepsVotes ==
    /\ pc = "idle"
    /\ pc' = "asking"
    /\ next' = 1
    /\ uncounted' = {} /\ best' = NoIP /\ bestCount' = 0
    /\ steady' = TRUE /\ honestSaid' = 0 /\ badSaid' = 0
    /\ UNCHANGED <<truth, moves, started, votes, current, report>>

(* case <-ticker.C: another lookup.                                        *)
Tick ==
    /\ pc = "idle"
    /\ pc' = "asking"
    /\ next' = 1
    /\ votes' = [v \in Addrs |-> 0]
    /\ uncounted' = {} /\ best' = NoIP /\ bestCount' = 0
    /\ steady' = TRUE /\ honestSaid' = 0 /\ badSaid' = 0
    /\ UNCHANGED <<truth, moves, started, current, report>>

----------------------------------------------------------------------------

WatchStep ==
    \/ \E got \in MaybeIP : Fetch(got)
    \/ StartCounting
    \/ \E v \in Addrs : Count(v)
    \/ TakeBaseline
    \/ NothingNew
    \/ Report
    \/ Tick

Next == AddressMoves \/ WatchStep

Spec == Init /\ [][Next]_vars

(* Fetches end (the client has a timeout) and the ticker goes on firing.   *)
FairSpec == Spec /\ WF_vars(WatchStep)

----------------------------------------------------------------------------
(* Why the vote is right.                                                  *)

(* While the address stands still the honest votes are all on it, and no   *)
(* other address has more votes than bad sources answered.                 *)
VotesInv ==
    steady => /\ votes[truth] >= honestSaid
              /\ \A v \in Addrs \ {truth} : votes[v] <= badSaid

(* The range loop holds a key with the most votes of those it has seen.    *)
CountInv ==
    /\ pc = "asking" => best = NoIP /\ bestCount = 0
    /\ pc # "asking" => \A v \in Addrs \ uncounted : votes[v] <= bestCount
    /\ bestCount > 0 => best \in Addrs /\ bestCount = votes[best]

VoteInv == VotesInv /\ CountInv

----------------------------------------------------------------------------
(* Properties.                                                             *)

(* After a lookup during which the address stood still and more honest     *)
(* sources answered than bad ones, the watcher has the right address,      *)
(* whatever the bad ones said and in whatever order the map was ranged     *)
(* over: "resilience against a single misbehaving endpoint" (public.go:3)  *)
(* needs two honest answers.                                               *)
HonestMajorityWins ==
    pc = "idle" /\ steady /\ honestSaid > badSaid => current = truth

(* If from some time on the address stands still and every lookup hears    *)
(* more honest sources than bad ones, the watcher ends up with the         *)
(* machine's address and does not change its mind any more.                *)
ComesToRest ==
    <>[](pc = "idle" => steady /\ honestSaid > badSaid) => <>[](current = truth)

=============================================================================
