------------------------------- MODULE Reload -------------------------------
(***************************************************************************)
(* POST /reload: every request has a goroutine of the HTTP server, which   *)
(* reads the configuration file, builds the notifiers it names, hands them *)
(* to Engine.SetNotifiers and answers.  Nothing makes one request wait for *)
(* another.  Meanwhile an administrator edits the file, and the engine     *)
(* dispatches with the set that it found when the dispatch began.          *)
(*                                                                         *)
(* A version is one content of the file.  It is good, or config.Load       *)
(* rejects it (invalid), or BuildNotifiers does (unbuildable).             *)
(***************************************************************************)
EXTENDS Integers

CONSTANTS
    Requests,   \* the requests to /reload
    MaxEdits    \* bound: how often the file is edited

ASSUME ReloadAssumption == MaxEdits \in Nat

Versions == 0 .. MaxEdits
Kinds    == {"good", "invalid", "unbuildable"}
Idle     == -1

VARIABLES
    file,       \* the version on disk
    kind,       \* what each version holds (of those that have been written)
    notifiers,  \* the version Engine.notifiers was built from
    dispatch,   \* the set the current dispatch uses, or Idle
    req,        \* the requests
    alone       \* history: the requests handled while no other was

vars == <<file, kind, notifiers, dispatch, req, alone>>

(* since is the version on disk when the request came, got the one that    *)
(* the handler has read.                                                   *)
Handlers == [pc : {"none", "posted", "built", "installed", "answered"},
             code : {0, 200, 405, 500}, since : Versions, got : Versions]

TypeOK ==
    /\ file \in Versions
    /\ kind \in [Versions -> Kinds]
    /\ notifiers \in Versions
    /\ dispatch \in Versions \cup {Idle}
    /\ req \in [Requests -> Handlers]
    /\ alone \subseteq Requests

(* Run has loaded version 0 and built its notifiers.                       *)
Init ==
    /\ file = 0
    /\ kind = [v \in Versions |-> "good"]
    /\ notifiers = 0
    /\ dispatch = Idle
    /\ req = [r \in Requests |-> [pc |-> "none", code |-> 0, since |-> 0, got |-> 0]]
    /\ alone = {}

Pending(r) == req[r].pc \in {"posted", "built", "installed"}
InFlight   == {r \in Requests : Pending(r)}

----------------------------------------------------------------------------

Edit(k) ==
    /\ file < MaxEdits
    /\ file' = file + 1
    /\ kind' = [kind EXCEPT ![file + 1] = k]
    /\ UNCHANGED <<notifiers, dispatch, req, alone>>

(* A GET gets its 405 at once.                                             *)
WrongMethod(r) ==
    /\ req[r].pc = "none"
    /\ req' = [req EXCEPT ![r] = [@ EXCEPT !.pc = "answered", !.code = 405]]
    /\ UNCHANGED <<file, kind, notifiers, dispatch, alone>>

Post(r) ==
    /\ req[r].pc = "none"
    /\ req' = [req EXCEPT ![r] = [@ EXCEPT !.pc = "posted", !.since = file]]
    /\ alone' = IF InFlight = {} THEN alone \cup {r} ELSE alone \ (InFlight \cup {r})
    /\ UNCHANGED <<file, kind, notifiers, dispatch>>

(* Mutants: the configuration Run has loaded is used again; a notifier     *)
(* that cannot be built is skipped.                                        *)
LoadOnce(r) ==
    /\ req[r].pc = "posted"
    /\ req' = [req EXCEPT ![r] = [@ EXCEPT !.pc = "built", !.got = notifiers]]
    /\ UNCHANGED <<file, kind, notifiers, dispatch, alone>>

LoadSkipsBroken(r) ==
    /\ req[r].pc = "posted" /\ kind[file] # "invalid"
    /\ req' = [req EXCEPT ![r] = [@ EXCEPT !.pc = "built", !.got = file]]
    /\ UNCHANGED <<file, kind, notifiers, dispatch, alone>>

(* config.Load and BuildNotifiers, which look at the file once ...         *)
Load(r) ==
    /\ req[r].pc = "posted" /\ kind[file] = "good"
    /\ req' = [req EXCEPT ![r] = [@ EXCEPT !.pc = "built", !.got = file]]
    /\ UNCHANGED <<file, kind, notifiers, dispatch, alone>>

(* Mutant: the result is installed before err is looked at.                *)
LoadFailsInstallsNil(r) ==
    /\ req[r].pc = "posted" /\ kind[file] # "good"
    /\ req' = [req EXCEPT ![r] = [@ EXCEPT !.pc = "answered", !.code = 500, !.got = file]]
    /\ notifiers' = Idle
    /\ UNCHANGED <<file, kind, dispatch, alone>>

(* ... and the error of either.                                            *)
LoadFails(r) ==
    /\ req[r].pc = "posted" /\ kind[file] # "good"
    /\ req' = [req EXCEPT ![r] = [@ EXCEPT !.pc = "answered", !.code = 500, !.got = file]]
    /\ UNCHANGED <<file, kind, notifiers, dispatch, alone>>

(* Mutant: dispatch keeps the lock while it delivers.                      *)
InstallWaits(r) ==
    /\ req[r].pc = "built" /\ dispatch = Idle
    /\ notifiers' = req[r].got
    /\ req' = [req EXCEPT ![r] = [@ EXCEPT !.pc = "installed"]]
    /\ UNCHANGED <<file, kind, dispatch, alone>>

(* engine.SetNotifiers(ns), under the lock.                                *)
Install(r) ==
    /\ req[r].pc = "built"
    /\ notifiers' = req[r].got
    /\ req' = [req EXCEPT ![r] = [@ EXCEPT !.pc = "installed"]]
    /\ UNCHANGED <<file, kind, dispatch, alone>>

Answer(r) ==
    /\ req[r].pc = "installed"
    /\ req' = [req EXCEPT ![r] = [@ EXCEPT !.pc = "answered", !.code = 200]]
    /\ UNCHANGED <<file, kind, notifiers, dispatch, alone>>

(* snapshotNotifiers copies the set under the lock, and lets go of it      *)
(* before the first delivery.                                              *)
DispatchBegins ==
    /\ dispatch = Idle
    /\ dispatch' = notifiers
    /\ UNCHANGED <<file, kind, notifiers, req, alone>>

DispatchEnds ==
    /\ dispatch # Idle
    /\ dispatch' = Idle
    /\ UNCHANGED <<file, kind, notifiers, req, alone>>

Handle(r) == Load(r) \/ LoadFails(r) \/ Install(r) \/ Answer(r)

Next ==
    \/ \E k \in Kinds : Edit(k)
    \/ \E r \in Requests : WrongMethod(r) \/ Post(r) \/ Handle(r)
    \/ DispatchBegins \/ DispatchEnds

Spec == Init /\ [][Next]_vars

(* Handlers go on.  Of a delivery nothing is assumed: it may take as long  *)
(* as the subscriber's server likes.                                       *)
FairSpec == Spec /\ \A r \in Requests : WF_vars(Handle(r))

----------------------------------------------------------------------------
(* Properties.                                                             *)

(* The engine never sends with a set that is empty or half built: whatever *)
(* it uses was built completely from one version that passed validation,   *)
(* and a failed reload leaves it alone.                                    *)
OnlyBuiltSetsAreUsed ==
    /\ kind[notifiers] = "good"
    /\ dispatch # Idle => kind[dispatch] = "good"

(* A reload that nobody else's overlapped is in use once it is answered,   *)
(* and stays so: from then on the engine has the file as it was when the   *)
(* request came, or a later one, whatever other reloads overlap, before    *)
(* and after.                                                              *)
LoneReloadIsInUse ==
    \A r \in Requests :
        req[r].pc = "answered" /\ req[r].code = 200 /\ r \in alone
            => notifiers >= req[r].since

(* A slow or hanging delivery does not hold up a reload.                   *)
EveryReloadIsAnswered ==
    \A r \in Requests : req[r].pc = "posted" ~> req[r].pc = "answered"

(* "notifiers reloaded" (gateway.go:111), /reload says, and SetNotifiers   *)
(* "atomically replaces the notifier set" (engine.go:163).  With reading   *)
(* the file and installing the result two steps, the request that read the *)
(* older file can be the last to install.                                  *)
AnsweredReloadIsInUse ==
    \A r \in Requests : req[r].pc = "answered" /\ req[r].code = 200
                            => notifiers >= req[r].since

=============================================================================
