----------------------------- MODULE LocalWatch -----------------------------
(***************************************************************************)
(* How the local watcher looks at the machine.  snapshot() is not one look *)
(* but many: net.Interfaces returns every interface with its flags, then   *)
(* the addresses of one interface after the other are asked for, while     *)
(* addresses come and go and interfaces go up and down.  Two goroutines do *)
(* this: the watcher, again and again, and AnnounceStartup or TestAll,     *)
(* through CurrentIPs.                                                     *)
(*                                                                         *)
(* Neither knows of the other, so one of them at a time is enough.         *)
(*                                                                         *)
(* EventPipeline treats a snapshot as one step.  Here that is shown to be  *)
(* right: the watcher implements EventPipeline's, with what it has seen of *)
(* each interface last for EventPipeline's addrs.                          *)
(*                                                                         *)
(* An entry is an address with its prefix as the system has it; IP is the  *)
(* address alone, a number in the order of sort.Strings.  An interface may *)
(* have one address with two prefixes, and then it is listed twice.        *)
(***************************************************************************)
EXTENDS Integers, Sequences, FiniteSets, SequencesExt

CONSTANTS
    Names,      \* the interfaces' names
    Index,      \* Names -> Nat: the order net.Interfaces lists them in
    Kind,       \* Names -> "physical", "denied" (by its name), "ptp", "loopback"
    Entries,    \* the entries an interface may have
    IP,         \* Entries -> Nat
    Class,      \* Entries -> "v4", "v6", "ula", "linklocal" (or 127/8, ::1)
    Possible,   \* the functions Names -> SUBSET Entries that may be the machine's
    Settings,   \* configurations: [only, virtual, noV6, ula]
    Public,     \* EventPipeline's key of the public watcher
    MaxMoves,   \* bound: how often the network changes
    MaxFaults   \* bound: how many system calls fail

ASSUME LocalWatchAssumption ==
    /\ Public \notin Names
    /\ Index \in [Names -> Nat] /\ \A i, j \in Names : i # j => Index[i] # Index[j]
    /\ Kind \in [Names -> {"physical", "denied", "ptp", "loopback"}]
    /\ IP \in [Entries -> Nat]
    /\ Class \in [Entries -> {"v4", "v6", "ula", "linklocal"}]
    /\ IsFiniteSet(Names) /\ Possible \subseteq [Names -> SUBSET Entries]
    /\ \A o \in Possible, i \in Names : IsFiniteSet(o[i])
    /\ Settings \subseteq [only : SUBSET Names, virtual : BOOLEAN,
                           noV6 : BOOLEAN, ula : BOOLEAN]
    /\ MaxMoves \in Nat /\ MaxFaults \in Nat

VARIABLES
    caller,     \* whose snapshots these are: "Watch" or "CurrentIPs"
    settings,   \* the Watcher's configuration
    up, os,     \* the network: who has FlagUp, and every interface's entries
    moves,      \* how often it has changed
    faults,     \* how many calls may still fail
    walking,    \* in snapshot(), whose locals are the next five
    left,       \* interfaces the loop has yet to look at
    flags,      \* the interfaces that net.Interfaces said are up
    got,        \* result
    lost,       \* interfaces it could not read
    since,      \* moves when it began
    wpc,        \* the watcher: "start", "idle", "sending", "done"
    prev, cur,  \* Watch's two snapshots
    todo,       \* interfaces whose event it has not sent
    sent,       \* the events it has sent
    cancelled,  \* ctx is done
    announced,  \* what CurrentIPs has returned last
    clean,      \* history: moves at the end of the last snapshot(), if nothing
                \* moved or failed meanwhile; otherwise -1
    seen,       \* history: what the watcher has seen of each interface last
    budget      \* EventPipeline's bounds, for the refinement

network == <<up, os, moves, faults>>
walk    == <<walking, left, flags, got, lost, since>>
watch   == <<wpc, prev, cur, todo, sent, seen, budget>>
vars    == <<caller, settings, network, walk, watch, cancelled, announced, clean>>

Nothing == [i \in Names |-> <<>>]

----------------------------------------------------------------------------
(* filter.go, and what snapshot makes of one interface.                    *)

isVirtualInterface(i) == Kind[i] \in {"loopback", "ptp", "denied"}

(* Mutant: an IPv6 address is kept or not by DisableIPv6 alone.            *)
keepIPAnyULA(e) ==
    /\ Class[e] # "linklocal"
    /\ settings.noV6 => Class[e] = "v4"

keepIP(e) ==
    /\ Class[e] # "linklocal"
    /\ Class[e] # "v4" => ~settings.noV6 /\ (Class[e] = "ula" => settings.ula)

(* The checks before iface.Addrs() that do not depend on FlagUp.           *)
Wanted(i) ==
    /\ IF settings.only # {} THEN i \in settings.only
       ELSE settings.virtual \/ ~isVirtualInterface(i)
    /\ Kind[i] # "loopback"

(* The entries of i that are left of what Addrs returns.                   *)
Kept(i) == {e \in os[i] : keepIP(e)}

(* Mutant: the addresses stay in the order of the system.                  *)
CollectUnsorted(kept) == [n \in DOMAIN kept |-> IP[kept[n]]]

(* sort.Strings                                                            *)
Sorted(s) ==
    LET order == CHOOSE p \in SetToSeqs(DOMAIN s) :
                    \A m, n \in DOMAIN s : m < n => s[p[m]] <= s[p[n]]
    IN [n \in DOMAIN s |-> s[order[n]]]

(* Of the entries kept, in the order of the system: ips, sorted.           *)
Collect(kept) == Sorted([n \in DOMAIN kept |-> IP[kept[n]]])

----------------------------------------------------------------------------
(* What README.md:226-232 says is watched: only the interfaces listed, or  *)
(* else the physical ones, or with include_virtual VPNs, bridges and       *)
(* docker's too.                                                           *)
Watched ==
    IF settings.only # {} THEN settings.only
    ELSE {i \in Names : Kind[i] = "physical" \/ (settings.virtual /\ Kind[i] # "loopback")}

(* ... and which of their addresses count.                                 *)
Counts == {e \in Entries :
    \/ Class[e] = "v4"
    \/ Class[e] = "v6" /\ ~settings.noV6
    \/ Class[e] = "ula" /\ ~settings.noV6 /\ settings.ula}

(* Their list: the n-th is the address that n entries do not exceed, and   *)
(* fewer are below.                                                        *)
SortedIPs(S) ==
    [n \in 1 .. Cardinality(S) |->
        CHOOSE a \in {IP[e] : e \in S} :
            /\ Cardinality({e \in S : IP[e] <= a}) >= n
            /\ Cardinality({e \in S : IP[e] < a}) < n]

(* What snapshot's own comment says it returns, local.go:94-95: "interface *)
(* name -> sorted list of IP addresses, restricted to the configured       *)
(* filter and excluding loopback/down interfaces".  It is not all that is  *)
(* said: by README.md:229 a list of interfaces "overrides auto-detect",    *)
(* and by local.go:103 it is "always honored verbatim", where a loopback   *)
(* interface that is listed is excluded here, as by the code; and the      *)
(* "address set" of local.go:138 has an address once, where the list has   *)
(* it with each of its prefixes, here and in the code.                     *)
Described(i) ==
    IF i \in Watched \cap up /\ Kind[i] # "loopback" THEN SortedIPs(os[i] \cap Counts)
    ELSE <<>>

----------------------------------------------------------------------------
(* The network.                                                            *)

Init ==
    /\ caller \in {"Watch", "CurrentIPs"}
    /\ settings \in Settings
    /\ os \in Possible /\ up \in SUBSET Names
    /\ moves = 0 /\ faults = MaxFaults
    /\ walking = FALSE /\ left = {} /\ flags = {} /\ got = Nothing /\ lost = {}
    /\ since = 0 /\ clean = -1
    /\ wpc = "start" /\ prev = Nothing /\ cur = Nothing
    /\ todo = {} /\ sent = <<>> /\ cancelled = FALSE
    /\ announced = {}
    /\ seen = [i \in Names |-> Described(i)]
    /\ budget = [b \in {"change", "fault", "answer"} |->
                    IF b = "change" THEN MaxMoves
                    ELSE IF b = "fault" THEN MaxFaults ELSE 0]

Move ==
    /\ moves < MaxMoves
    /\ moves' = moves + 1
    /\ UNCHANGED <<caller, settings, faults, walk, watch, cancelled, announced, clean>>

AddressesChange ==
    /\ Move
    /\ os' \in {o \in Possible : \E i \in Names : o # os /\ \A j \in Names \ {i} : o[j] = os[j]}
    /\ UNCHANGED up

UpOrDown(i) ==
    /\ Move
    /\ up' = IF i \in up THEN up \ {i} ELSE up \cup {i}
    /\ UNCHANGED os

Cancel ==
    /\ ~cancelled
    /\ cancelled' = TRUE
    /\ UNCHANGED <<caller, settings, network, walk, watch, announced, clean>>

(* A system call fails.                                                    *)
Fault == faults > 0 /\ faults' = faults - 1

----------------------------------------------------------------------------
(* snapshot().                                                             *)

Begin(fails) ==
    /\ ~walking
    /\ caller = "Watch" => wpc \in {"start", "idle"}
    /\ walking' = TRUE
    /\ left' = IF fails THEN {} ELSE Names
    /\ flags' = IF fails THEN {} ELSE up
    /\ lost' = IF fails THEN Names ELSE {}
    /\ since' = moves
    /\ UNCHANGED <<caller, settings, up, os, moves, got, watch, cancelled, announced, clean>>

(* net.Interfaces() returns, or fails, and the result is empty.            *)
List      == Begin(FALSE) /\ UNCHANGED faults
ListFails == Begin(TRUE) /\ Fault

LooksAt(i) ==
    /\ walking /\ i \in left
    /\ \A j \in left : Index[i] <= Index[j]
    /\ left' = left \ {i}
    /\ UNCHANGED <<caller, settings, up, os, moves, walking, flags, since, wpc, prev,
                   cur, todo, sent, cancelled, announced, clean>>

(* What is seen of i: for EventPipeline, addrs[i] from now on.             *)
Sees(i, l) ==
    IF seen[i] = l \/ caller # "Watch" THEN UNCHANGED <<seen, budget>>
    ELSE /\ seen' = [seen EXCEPT ![i] = l]
         /\ budget' = [budget EXCEPT !["change"] = @ - 1]

(* continue, because of the filter or of the flags.                        *)
Skip(i) ==
    /\ LooksAt(i)
    /\ ~(Wanted(i) /\ i \in flags)
    /\ Sees(i, <<>>)
    /\ UNCHANGED <<faults, got, lost>>

(* iface.Addrs() returns the entries i has now, in some order, which those *)
(* that are kept then have too ...                                         *)
ReadAddrs(i) ==
    /\ LooksAt(i)
    /\ Wanted(i) /\ i \in flags
    /\ \E kept \in SetToSeqs(Kept(i)) :
            /\ got' = [got EXCEPT ![i] = Collect(kept)]
            /\ Sees(i, Collect(kept))
    /\ UNCHANGED <<faults, lost>>

(* ... or fails, and i is left out.                                        *)
ReadFails(i) ==
    /\ LooksAt(i)
    /\ Wanted(i) /\ i \in flags
    /\ Fault
    /\ lost' = lost \cup {i}
    /\ UNCHANGED <<got, seen, budget>>

(* snapshot() returns, its locals are no more.                             *)
Done ==
    /\ walking /\ left = {}
    /\ walking' = FALSE
    /\ flags' = {} /\ got' = Nothing /\ lost' = {} /\ since' = 0
    /\ clean' = IF since = moves /\ lost = {} THEN moves ELSE -1
    /\ UNCHANGED <<caller, settings, network, left, sent, cancelled, seen>>

----------------------------------------------------------------------------
(* Watch.                                                                  *)

(* Mutant: equal() compares the lengths.                                   *)
diffByLength(before, now) == {i \in Names : Len(before[i]) # Len(now[i])}

diff(before, now) == {i \in Names : before[i] # now[i]}

Spent == IF lost = {} THEN budget ELSE [budget EXCEPT !["fault"] = @ - 1]

(* prev := w.snapshot()                                                    *)
Baseline ==
    /\ caller = "Watch" /\ wpc = "start" /\ Done
    /\ prev' = got /\ cur' = got
    /\ wpc' = "idle"
    /\ budget' = Spent
    /\ UNCHANGED <<todo, announced>>

(* cur := w.snapshot(), and the range loop over diff begins; when it is    *)
(* empty prev = cur changes nothing.                                       *)
Tick ==
    /\ caller = "Watch" /\ wpc = "idle" /\ Done
    /\ cur' = got
    /\ todo' = diff(prev, got)
    /\ wpc' = IF todo' = {} THEN "idle" ELSE "sending"
    /\ budget' = IF todo' = {} THEN budget ELSE Spent
    /\ UNCHANGED <<prev, announced>>

(* Mutant: prev = cur is forgotten.                                        *)
SendKeepsPrev(i) ==
    /\ wpc = "sending" /\ i \in todo
    /\ sent' = Append(sent, [key |-> i, old |-> prev[i], new |-> cur[i]])
    /\ todo' = todo \ {i}
    /\ wpc' = IF todo' = {} THEN "idle" ELSE "sending"
    /\ UNCHANGED <<caller, settings, network, walk, prev, cur, seen, budget, cancelled, announced, clean>>

(* out <- e; after the last event prev = cur.                              *)
Send(i) ==
    /\ wpc = "sending" /\ i \in todo
    /\ cur[i] = <<>> => \A j \in todo : cur[j] = <<>>
    /\ sent' = Append(sent, [key |-> i, old |-> prev[i], new |-> cur[i]])
    /\ todo' = todo \ {i}
    /\ IF todo' = {} THEN wpc' = "idle" /\ prev' = cur ELSE UNCHANGED <<wpc, prev>>
    /\ UNCHANGED <<caller, settings, network, walk, cur, seen, budget, cancelled, announced, clean>>

(* case <-ctx.Done(): in either select, never during a snapshot().         *)
Stop ==
    /\ cancelled
    /\ wpc \in {"idle", "sending"} /\ ~walking
    /\ wpc' = "done"
    /\ UNCHANGED <<caller, settings, network, walk, prev, cur, todo, sent, seen, budget,
                   cancelled, announced, clean>>

(* CurrentIPs returns the addresses of all interfaces, each once.          *)
CurrentIPs ==
    /\ caller = "CurrentIPs" /\ Done
    /\ announced' = UNION {ToSet(got[i]) : i \in Names}
    /\ UNCHANGED <<wpc, prev, cur, todo, budget>>

----------------------------------------------------------------------------

Visit == \E i \in Names : Skip(i) \/ ReadAddrs(i) \/ ReadFails(i)

Next ==
    \/ AddressesChange
    \/ \E i \in Names : UpOrDown(i)
    \/ Cancel
    \/ List \/ ListFails \/ Visit
    \/ Baseline \/ Tick \/ CurrentIPs
    \/ \E i \in Names : Send(i)
    \/ Stop

Spec == Init /\ [][Next]_vars

(* The goroutine runs on, and its ticker fires again and again; somebody   *)
(* reads the channel (EventPipeline); the network does as it likes.        *)
Fairness ==
    /\ WF_vars(List) /\ WF_vars(Visit)
    /\ WF_vars(Baseline \/ Tick)
    /\ WF_vars(\E i \in Names : Send(i))

FairSpec == Spec /\ Fairness

----------------------------------------------------------------------------
(* Properties.                                                             *)

TypeOK ==
    /\ caller \in {"Watch", "CurrentIPs"}
    /\ settings \in Settings /\ up \subseteq Names /\ os \in Possible
    /\ moves \in 0 .. MaxMoves /\ faults \in 0 .. MaxFaults
    /\ walking \in BOOLEAN /\ left \subseteq Names /\ flags \subseteq Names
    /\ got \in [Names -> Seq(Nat)] /\ lost \subseteq Names
    /\ since \in 0 .. MaxMoves /\ clean \in -1 .. MaxMoves
    /\ wpc \in {"start", "idle", "sending", "done"}
    /\ prev \in [Names -> Seq(Nat)] /\ cur \in [Names -> Seq(Nat)]
    /\ seen \in [Names -> Seq(Nat)]
    /\ todo \subseteq Names /\ cancelled \in BOOLEAN
    /\ sent \in Seq([key : Names, old : Seq(Nat), new : Seq(Nat)])
    /\ announced \subseteq Nat
    /\ budget \in [{"change", "fault", "answer"} -> Nat]

(* A snapshot during which nothing moved or failed is what the comment on  *)
(* snapshot describes (Described, with its exceptions), in whatever order  *)
(* the system lists interfaces and addresses; so "the test notification    *)
(* reflects exactly what the watcher would report" (filter.go:67):         *)
(* CurrentIPs and the watcher agree.                                       *)
SnapshotIsWhatIsThere ==
    clean = moves =>
        IF caller = "Watch" THEN \A i \in Names : cur[i] = Described(i)
        ELSE announced = UNION {ToSet(Described(i)) : i \in Names}

(* The walk over the interfaces, with flags that are stale when they are   *)
(* looked at and addresses read one interface after the other, is as good  *)
(* as a look at all of them at once: the watcher implements that of        *)
(* EventPipeline, where addrs is what the walk saw of each interface last. *)
(* In particular a still network never causes an event.                    *)
Keyed(f) == [k \in Names \cup {Public} |-> IF k = Public THEN <<>> ELSE f[k]]
NoneKeyed == [k \in Names \cup {Public} |-> <<>>]

SortedLists == {SortedIPs(S) : S \in {T \in SUBSET Entries : T # {} /\ IsFiniteSet(T)}}

MaxEvents == 1 + MaxMoves + 2 * MaxFaults * Cardinality(Names)

P == INSTANCE EventPipeline WITH
        Interfaces <- Names, Addrs <- SortedLists, NoAddrs <- <<>>,
        Enabled <- {"local"}, ChanCap <- MaxEvents,
        MaxChanges <- MaxMoves, MaxAnswers <- 0,
        addrs <- seen,
        wpc <- [w \in {"local", "public"} |-> IF w = "local" THEN wpc ELSE "done"],
        prev <- Keyed(prev), cur <- Keyed(cur), events <- sent, closed <- FALSE,
        epc <- "recv", inHand <- [key |-> Public, old |-> <<>>, new |-> <<>>],
        last <- NoneKeyed, state <- NoneKeyed, changedKeys <- {}

WatcherImplementsPipeline == P!Spec

(* When the network settles, the watcher's idea of it is in the end the    *)
(* one described: no stale flag or half-read snapshot sticks.              *)
EventuallyRight ==
    <>[](cancelled \/ caller # "Watch" \/ \A i \in Names :
            prev[i] = Described(i))

=============================================================================
