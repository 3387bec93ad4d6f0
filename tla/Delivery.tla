------------------------------ MODULE Delivery ------------------------------
(***************************************************************************)
(* How Engine gets one message to every notifier: dispatch starts a        *)
(* deliver goroutine per notifier and waits for them; deliver retries with *)
(* a back-off until the notifier answers nil, the attempts are used up or  *)
(* the context is done.  Three callers do this at the same time: the loop  *)
(* of Run, one event after another; AnnounceStartup, once; and TestAll,    *)
(* which makes one attempt and records nothing.                            *)
(*                                                                         *)
(* A message is the dispatch that sends it.  Event v of Events is the      *)
(* loop's v-th change; Startup's text is the state of the machine after    *)
(* content changes.  A Notify call (an HTTP request with a timeout) ends   *)
(* in one of three ways: "ok", "refused", or "lost": the subscriber has    *)
(* the message and the caller an error.                                    *)
(***************************************************************************)
EXTENDS Integers, Sequences, FiniteSets

CONSTANTS
    Notifiers,  \* the notifier objects any configuration builds
    Healthy,    \* those that answer nil to every call not cut short
    Name,       \* what Name() of each returns: its type
    Startup,    \* the dispatch of AnnounceStartup
    Test,       \* the deliveries of one TestAll
    Extras,     \* which of Startup and Test this instance has
    MaxRetries, \* Engine.maxRetries (2 in the code)
    MaxEvents,  \* bound: changes the loop is given
    MaxSwaps    \* bound: calls of SetNotifiers

Events     == 1 .. MaxEvents
Dispatches == Events \cup Extras

ASSUME DeliveryAssumption ==
    /\ Healthy \subseteq Notifiers
    /\ MaxRetries \in Nat /\ MaxEvents \in Nat /\ MaxSwaps \in Nat
    /\ Startup \notin Nat /\ Test \notin Nat /\ Startup # Test
    /\ Extras \subseteq {Startup, Test}

VARIABLES
    changes,    \* how many changes have happened to the machine so far
    notifiers,  \* Engine.notifiers, as a set
    swaps,      \* how many swaps are left
    taken,      \* the event Run's loop took last
    phase,      \* per dispatch: "before", "waiting" in wg.Wait, "after"
    content,    \* the changes AnnounceStartup's text knows of
    job,        \* per dispatch and notifier: its deliver goroutine
    status,     \* Engine.state.LastNotify
    inbox,      \* what each notifier's subscribers were sent, in order
    cancelled   \* ctx is done

vars == <<changes, notifiers, swaps, taken, phase, content, job, status, inbox, cancelled>>

(* ok is the outcome of the last call, dead says that it began with ctx    *)
(* done already.                                                           *)
Jobs == [pc : {"none", "ready", "calling", "recording", "backoff", "finished"},
         attempt : 0 .. MaxRetries, ok : BOOLEAN, dead : BOOLEAN]

NoJob == [pc |-> "none",  attempt |-> 0, ok |-> FALSE, dead |-> FALSE]
Fresh == [pc |-> "ready", attempt |-> 0, ok |-> FALSE, dead |-> FALSE]

TypeOK ==
    /\ changes \in 0 .. MaxEvents
    /\ notifiers \subseteq Notifiers
    /\ swaps \in 0 .. MaxSwaps
    /\ taken \in 0 .. MaxEvents
    /\ phase \in [Dispatches -> {"before", "waiting", "after"}]
    /\ content \in 0 .. MaxEvents
    /\ job \in [Dispatches -> [Notifiers -> Jobs]]
    /\ status \in [{Name[n] : n \in Notifiers} -> {"none", "ok", "err"}]
    /\ inbox \in [Notifiers -> Seq(Dispatches)]
    /\ cancelled \in BOOLEAN

Init ==
    /\ changes = 0
    /\ notifiers \in (SUBSET Notifiers) \ {{}}
    /\ swaps = MaxSwaps
    /\ taken = 0
    /\ phase = [d \in Dispatches |-> "before"]
    /\ content = 0
    /\ job = [d \in Dispatches |-> [n \in Notifiers |-> NoJob]]
    /\ status = [m \in {Name[n] : n \in Notifiers} |-> "none"]
    /\ inbox = [n \in Notifiers |-> <<>>]
    /\ cancelled = FALSE

----------------------------------------------------------------------------
(* What happens around the engine.                                         *)

AddressChanges ==
    /\ changes < MaxEvents
    /\ changes' = changes + 1
    /\ UNCHANGED <<notifiers, swaps, taken, phase, content, job, status, inbox, cancelled>>

(* A reload: validate has made sure that the new set is not empty.         *)
SetNotifiers(ns) ==
    /\ swaps > 0 /\ ns # notifiers
    /\ swaps' = swaps - 1
    /\ notifiers' = ns
    /\ UNCHANGED <<changes, taken, phase, content, job, status, inbox, cancelled>>

Cancel ==
    /\ ~cancelled
    /\ cancelled' = TRUE
    /\ UNCHANGED <<changes, notifiers, swaps, taken, phase, content, job, status, inbox>>

----------------------------------------------------------------------------
(* Starting and ending a dispatch.                                         *)

(* One goroutine for each notifier of snapshotNotifiers().                 *)
Begin(d) ==
    /\ phase[d] = "before"
    /\ phase' = [phase EXCEPT ![d] = "waiting"]
    /\ job' = [job EXCEPT ![d] = [n \in Notifiers |-> IF n \in notifiers THEN Fresh ELSE NoJob]]

(* The loop takes the next event once dispatch of the last has returned.   *)
LoopTakes(v) ==
    /\ v = taken + 1 /\ v <= changes
    /\ taken > 0 => phase[taken] = "after"
    /\ taken' = v
    /\ Begin(v)
    /\ UNCHANGED <<changes, notifiers, swaps, content, status, inbox, cancelled>>

(* AnnounceStartup asks the IP providers for the addresses ...             *)
ReadAddresses ==
    /\ Startup \in Extras /\ phase[Startup] = "before"
    /\ content # changes
    /\ content' = changes
    /\ UNCHANGED <<changes, notifiers, swaps, taken, phase, job, status, inbox, cancelled>>

(* ... and dispatches what they said ...                                   *)
Announce ==
    /\ Startup \in Extras
    /\ Begin(Startup)
    /\ UNCHANGED <<changes, notifiers, swaps, taken, content, status, inbox, cancelled>>

(* ... or returns when there is no address.                                *)
SkipAnnounce ==
    /\ Startup \in Extras /\ phase[Startup] = "before"
    /\ phase' = [phase EXCEPT ![Startup] = "after"]
    /\ UNCHANGED <<changes, notifiers, swaps, taken, content, job, status, inbox, cancelled>>

TestAll ==
    /\ Test \in Extras
    /\ Begin(Test)
    /\ UNCHANGED <<changes, notifiers, swaps, taken, content, status, inbox, cancelled>>

(* Mutant: dispatch does not wait for its goroutines.                      *)
DispatchReturnsAtOnce(d) ==
    /\ phase[d] = "waiting"
    /\ phase' = [phase EXCEPT ![d] = "after"]
    /\ UNCHANGED <<changes, notifiers, swaps, taken, content, job, status, inbox, cancelled>>

(* wg.Wait() returns.                                                      *)
DispatchReturns(d) ==
    /\ phase[d] = "waiting"
    /\ \A n \in Notifiers : job[d][n].pc \in {"none", "finished"}
    /\ phase' = [phase EXCEPT ![d] = "after"]
    /\ UNCHANGED <<changes, notifiers, swaps, taken, content, job, status, inbox, cancelled>>

----------------------------------------------------------------------------
(* deliver, and the goroutine of TestAll.                                  *)

(* Mutant: one context for all of a dispatch, cancelled by the first error *)
(* (an errgroup).                                                          *)
StartCallErrgroup(d, n) ==
    /\ job[d][n].pc \in {"ready", "backoff"}
    /\ job' = [job EXCEPT ![d][n].pc = "calling",
                          ![d][n].dead = \/ cancelled /\ d # Test
                                         \/ \E m \in Notifiers : job[d][m].pc = "backoff"]
    /\ UNCHANGED <<changes, notifiers, swaps, taken, phase, content, status, inbox, cancelled>>

(* n.Notify(nctx, ev), at once or when the back-off timer fires.  The      *)
(* select takes either case when both are ready, so the timer may win      *)
(* after ctx is done; TestAll runs under the request's own context.        *)
StartCall(d, n) ==
    /\ job[d][n].pc \in {"ready", "backoff"}
    /\ job' = [job EXCEPT ![d][n].pc = "calling",
                          ![d][n].dead = cancelled /\ d # Test]
    /\ UNCHANGED <<changes, notifiers, swaps, taken, phase, content, status, inbox, cancelled>>

(* How a call ends.  One begun under a done context fails before anything  *)
(* is sent (net/http); a healthy notifier accepts if nothing cuts it short.*)
Outcomes(d, n) ==
    IF job[d][n].dead THEN {"refused"}
    ELSE IF n \in Healthy /\ (d = Test \/ ~cancelled) THEN {"ok"}
    ELSE {"ok", "refused", "lost"}

(* Mutant: the test message goes through deliver's loop as well.           *)
CallEndsTestToo(d, n, outcome) ==
    /\ job[d][n].pc = "calling"
    /\ outcome \in Outcomes(d, n)
    /\ job' = [job EXCEPT ![d][n].ok = (outcome = "ok"), ![d][n].pc = "recording"]
    /\ inbox' = IF outcome = "refused" THEN inbox
                ELSE [inbox EXCEPT ![n] = Append(@, d)]
    /\ UNCHANGED <<changes, notifiers, swaps, taken, phase, content, status, cancelled>>

(* Notify returns; an accepted message is in the inbox from then on.       *)
CallEnds(d, n, outcome) ==
    /\ job[d][n].pc = "calling"
    /\ outcome \in Outcomes(d, n)
    /\ job' = [job EXCEPT ![d][n].ok = (outcome = "ok"),
                          ![d][n].pc = IF d = Test THEN "finished" ELSE "recording"]
    /\ inbox' = IF outcome = "refused" THEN inbox
                ELSE [inbox EXCEPT ![n] = Append(@, d)]
    /\ UNCHANGED <<changes, notifiers, swaps, taken, phase, content, status, cancelled>>

(* Mutants: no return after success; one attempt too many; ctx.Err() not   *)
(* looked at; the attempts not counted.                                    *)
NextAttemptAfterSuccess(j) ==
    IF cancelled \/ j.attempt = MaxRetries
    THEN [j EXCEPT !.pc = "finished"]
    ELSE [j EXCEPT !.pc = "backoff", !.attempt = @ + 1]

NextAttemptOneMore(j) ==
    IF j.ok \/ cancelled \/ j.attempt = MaxRetries + 1
    THEN [j EXCEPT !.pc = "finished"]
    ELSE [j EXCEPT !.pc = "backoff", !.attempt = @ + 1]

NextAttemptDespiteDone(j) ==
    IF j.ok \/ j.attempt = MaxRetries
    THEN [j EXCEPT !.pc = "finished"]
    ELSE [j EXCEPT !.pc = "backoff", !.attempt = @ + 1]

NextAttemptForever(j) ==
    IF j.ok \/ cancelled
    THEN [j EXCEPT !.pc = "finished"]
    ELSE [j EXCEPT !.pc = "backoff"]

(* What deliver does after a call: return, give up, or go round its loop.  *)
NextAttempt(j) ==
    IF j.ok \/ cancelled \/ j.attempt = MaxRetries
    THEN [j EXCEPT !.pc = "finished"]
    ELSE [j EXCEPT !.pc = "backoff", !.attempt = @ + 1]

(* Mutant: only errors are recorded.                                       *)
RecordErrorsOnly(d, n) ==
    /\ job[d][n].pc = "recording"
    /\ status' = IF job[d][n].ok THEN status ELSE [status EXCEPT ![Name[n]] = "err"]
    /\ job' = [job EXCEPT ![d][n] = NextAttempt(@)]
    /\ UNCHANGED <<changes, notifiers, swaps, taken, phase, content, inbox, cancelled>>

(* recordNotify takes the lock; deliver then looks at err and ctx.Err().   *)
Record(d, n) ==
    /\ job[d][n].pc = "recording"
    /\ status' = [status EXCEPT ![Name[n]] = IF job[d][n].ok THEN "ok" ELSE "err"]
    /\ job' = [job EXCEPT ![d][n] = NextAttempt(@)]
    /\ UNCHANGED <<changes, notifiers, swaps, taken, phase, content, inbox, cancelled>>

(* case <-ctx.Done() during the back-off.                                  *)
StopWaiting(d, n) ==
    /\ job[d][n].pc = "backoff" /\ cancelled
    /\ job' = [job EXCEPT ![d][n].pc = "finished"]
    /\ UNCHANGED <<changes, notifiers, swaps, taken, phase, content, status, inbox, cancelled>>

----------------------------------------------------------------------------

JobStep(d, n) ==
    \/ StartCall(d, n)
    \/ \E outcome \in {"ok", "refused", "lost"} : CallEnds(d, n, outcome)
    \/ Record(d, n)
    \/ StopWaiting(d, n)

Next ==
    \/ AddressChanges
    \/ \E ns \in (SUBSET Notifiers) \ {{}} : SetNotifiers(ns)
    \/ Cancel
    \/ \E v \in Events : LoopTakes(v)
    \/ ReadAddresses \/ Announce \/ SkipAnnounce \/ TestAll
    \/ \E d \in Dispatches : DispatchReturns(d)
    \/ \E d \in Dispatches, n \in Notifiers : JobStep(d, n)

Spec == Init /\ [][Next]_vars

(* Every goroutine that can go on does, and every call ends: nctx has a    *)
(* timeout and every notifier passes it to its HTTP request.  Nothing is   *)
(* assumed of what a call to an unhealthy notifier ends in.                *)
Fairness ==
    /\ WF_vars(\E v \in Events : LoopTakes(v))
    /\ \A d \in Dispatches : WF_vars(DispatchReturns(d))
    /\ \A d \in Dispatches, n \in Notifiers : WF_vars(JobStep(d, n))

FairSpec == Spec /\ Fairness

----------------------------------------------------------------------------
(* Properties.                                                             *)

(* The changes reach a notifier's subscribers in the order they happened,  *)
(* retries, slow answers and lost acknowledgements of other notifiers      *)
(* notwithstanding: Run takes no event before wg.Wait of the one before.   *)
ChangesArriveInOrder ==
    \A n \in Notifiers : \A i, j \in DOMAIN inbox[n] :
        i < j /\ {inbox[n][i], inbox[n][j]} \subseteq Events => inbox[n][i] <= inbox[n][j]

Copies(n, d) == {i \in DOMAIN inbox[n] : inbox[n][i] = d}

(* deliver never sends a message again that the notifier has accepted with *)
(* nil: every copy before the last call's one was an error to the caller.  *)
NoCopyAfterSuccess ==
    [][ \A d \in Dispatches, n \in Notifiers :
            job[d][n].ok => Copies(n, d)' = Copies(n, d) ]_vars

(* Nobody gets a message more than maxRetries + 1 times, a test message    *)
(* more than once, whatever is lost on the way back.                       *)
BoundedCopies ==
    \A d \in Dispatches, n \in Notifiers :
        Cardinality(Copies(n, d)) <= IF d = Test THEN 1 ELSE MaxRetries + 1

(* deliver leaves a notifier without the message only after all attempts,  *)
(* or because the service is stopping.                                     *)
GivesUpOnlyWhenDue ==
    \A d \in Dispatches \ {Test}, n \in Notifiers :
        job[d][n].pc = "finished" /\ ~job[d][n].ok
            => cancelled \/ job[d][n].attempt = MaxRetries

(* After ctx is done a goroutine starts at most one more call: the timer   *)
(* may win the select once, never twice.                                   *)
OneLateCall ==
    [][ \A d \in Dispatches, n \in Notifiers :
            job[d][n].dead /\ job[d][n].pc # "calling" => job'[d][n].pc # "calling" ]_vars

(* wg.Wait always returns, also with notifiers that never answer well, so  *)
(* neither Run's loop nor a shutdown hangs in dispatch.                    *)
AllDispatchesEnd == \A d \in Dispatches : phase[d] = "waiting" ~> phase[d] = "after"

(* "One notifier failing does not block the others" (engine.go:304), nor   *)
(* the changes that come after: a healthy notifier is told every change    *)
(* (unless a reload takes it out while the change waits).                  *)
HealthyAreTold ==
    \A v \in Events, n \in Healthy :
        changes >= v /\ taken < v
            ~> cancelled \/ n \notin notifiers \/ Copies(n, v) # {}

(* LastNotify "records the outcome of the most recent delivery to a        *)
(* notifier" (engine.go:51): after the loop's dispatch, and with nobody    *)
(* announcing at the same time, it says for every notifier whether it has  *)
(* the change, if no other shares its Name(), which is its type.           *)
StatusTellsTheOutcome ==
    Startup \notin Extras /\ taken > 0 /\ phase[taken] = "after" =>
        \A n \in Notifiers :
            /\ job[taken][n].pc = "finished"
            /\ \A m \in Notifiers \ {n} : Name[m] # Name[n]
            => (status[Name[n]] = "ok" <=> job[taken][n].ok)

(* The announcement "never causes a duplicate when a real change follows"  *)
(* (engine.go:234).  It does when its live lookup already sees an address  *)
(* that the watchers' baseline had not: a later poll reports it again.     *)
AnnouncementIsNotRepeated ==
    \A n \in Notifiers : \A i, j \in DOMAIN inbox[n] :
        i < j /\ inbox[n][i] = Startup /\ inbox[n][j] \in Events
            => inbox[n][j] > content

=============================================================================
