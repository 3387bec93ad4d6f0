------------------------------ MODULE Service ------------------------------
(***************************************************************************)
(* The life of the service process: program.Start runs app.Run in a        *)
(* goroutine; Run loads the configuration, starts the engine, the startup  *)
(* announcement and the gateway as its configuration says and waits for    *)
(* all three; program.Stop cancels the context and waits for Run, but not  *)
(* for longer than StopBound.  When Stop has returned the process exits.   *)
(*                                                                         *)
(* Time passes in steps of a second.  A step of the program takes no time: *)
(* the clock stands still while one is due.  What takes time is waiting:   *)
(* for the answers of the public lookup, for a request that /test handles  *)
(* and for deliveries.                                                     *)
(***************************************************************************)
EXTENDS Integers

CONSTANTS
    StopBound,      \* how long Stop waits for Run (10 s)
    ShutdownBound,  \* how long the gateway waits for its handlers (5 s)
    LookupBound,    \* the timeout of the public lookup (12 s)
    NotifyBound     \* Engine.notifyTimeout (15 s)

ASSUME ServiceAssumption ==
    /\ {StopBound, ShutdownBound, LookupBound, NotifyBound} \subseteq Nat
    /\ ShutdownBound < StopBound

(* A /test request looks the addresses up and calls every notifier once.   *)
TestBound == LookupBound + NotifyBound

VARIABLES
    file,       \* the configuration: "good", "invalid" or "unbuildable"
    announces,  \* notify_on_start
    serves,     \* gateway.enabled
    process,    \* "up", "stopping" (in program.Stop), "exited"
    cancelled,  \* p.cancel() has been called
    run,        \* app.Run: "loading", "waiting" in wg.Wait, "failed", "returned"
    engine,     \* the goroutine of Engine.Run: "none", "on", "off"
    announce,   \* that of AnnounceStartup: "none", "lookup", "sending", "off"
    gateway,    \* that of Gateway.Run: "none", "serving", "closing", "off", or
                \* "failed", off because it could not listen
    test,       \* a handler of /test: "none", "busy"
    clock       \* seconds since: Stop was called, Shutdown was called, the
                \* lookup began, the /test request came

vars == <<file, announces, serves, process, cancelled, run, engine, announce,
          gateway, test, clock>>

Timers == {"stop", "shutdown", "lookup", "test"}

TypeOK ==
    /\ file \in {"good", "invalid", "unbuildable"}
    /\ announces \in BOOLEAN /\ serves \in BOOLEAN /\ cancelled \in BOOLEAN
    /\ process \in {"up", "stopping", "exited"}
    /\ run \in {"loading", "waiting", "failed", "returned"}
    /\ engine \in {"none", "on", "off"}
    /\ announce \in {"none", "lookup", "sending", "off"}
    /\ gateway \in {"none", "serving", "closing", "off", "failed"}
    /\ test \in {"none", "busy"}
    /\ clock \in [Timers -> Nat]
    /\ clock["stop"] <= StopBound /\ clock["shutdown"] <= ShutdownBound
    /\ clock["lookup"] <= LookupBound /\ clock["test"] <= TestBound

(* What the manager sees after Start has returned.                         *)
Init ==
    /\ file \in {"good", "invalid", "unbuildable"}
    /\ announces \in BOOLEAN /\ serves \in BOOLEAN
    /\ process = "up"
    /\ cancelled = FALSE
    /\ run = "loading"
    /\ engine = "none"
    /\ announce = "none"
    /\ gateway = "none"
    /\ test = "none"
    /\ clock = [t \in Timers |-> 0]

Alive == process # "exited"

----------------------------------------------------------------------------
(* app.Run.                                                                *)

(* config.Load or BuildNotifiers fails: Run returns, Start's goroutine     *)
(* logs the error and closes done.                                         *)
RunFails ==
    /\ Alive /\ run = "loading" /\ file # "good"
    /\ run' = "failed"
    /\ UNCHANGED <<file, announces, serves, process, cancelled, engine, announce,
                   gateway, test, clock>>

RunStarts ==
    /\ Alive /\ run = "loading" /\ file = "good"
    /\ run' = "waiting"
    /\ engine' = "on"
    /\ announce' = IF announces THEN "lookup" ELSE "none"
    /\ gateway' = IF serves THEN "serving" ELSE "none"
    /\ UNCHANGED <<file, announces, serves, process, cancelled, test, clock>>

GatewayIsOff == gateway \in {"none", "off", "failed"}

(* wg.Wait() may return.                                                   *)
AllDone == engine = "off" /\ announce \in {"none", "off"} /\ GatewayIsOff

RunReturns ==
    /\ Alive /\ run = "waiting" /\ AllDone
    /\ run' = "returned"
    /\ UNCHANGED <<file, announces, serves, process, cancelled, engine, announce,
                   gateway, test, clock>>

----------------------------------------------------------------------------
(* The three goroutines.                                                   *)

(* Engine.Run ends when the context is done, after the events it still has *)
(* (EventPipeline); their deliveries fail at once.                         *)
EngineEnds ==
    /\ Alive /\ engine = "on" /\ cancelled
    /\ engine' = "off"
    /\ UNCHANGED <<file, announces, serves, process, cancelled, run, announce,
                   gateway, test, clock>>

(* The public lookup has a context of its own: cancelling does not end it. *)
LookupEnds ==
    /\ Alive /\ announce = "lookup"
    /\ announce' \in {"sending", "off"}
    /\ UNCHANGED <<file, announces, serves, process, cancelled, run, engine,
                   gateway, test, clock>>

SendingEnds ==
    /\ Alive /\ announce = "sending"
    /\ announce' = "off"
    /\ UNCHANGED <<file, announces, serves, process, cancelled, run, engine,
                   gateway, test, clock>>

(* Mutant: the gateway's error takes the service down with it.             *)
ListenFailsForAll ==
    /\ Alive /\ gateway = "serving"
    /\ gateway' = "failed"
    /\ cancelled' = TRUE
    /\ UNCHANGED <<file, announces, serves, process, run, engine, announce, test, clock>>

(* ListenAndServe fails, at once or later, and the select takes its error, *)
(* be the context done or not; the error is logged and nothing else        *)
(* happens.  In particular a handler that is busy stays so, and nobody     *)
(* waits for it any more.                                                  *)
ListenFails ==
    /\ Alive /\ gateway = "serving"
    /\ gateway' = "failed"
    /\ UNCHANGED <<file, announces, serves, process, cancelled, run, engine, announce,
                   test, clock>>

TestPosted ==
    /\ Alive /\ gateway = "serving" /\ test = "none"
    /\ test' = "busy"
    /\ clock' = [clock EXCEPT !["test"] = 0]
    /\ UNCHANGED <<file, announces, serves, process, cancelled, run, engine,
                   announce, gateway>>

(* The handler's context is the request's: neither the end of ctx nor      *)
(* Shutdown cuts it short.                                                 *)
TestEnds ==
    /\ Alive /\ test = "busy"
    /\ test' = "none"
    /\ UNCHANGED <<file, announces, serves, process, cancelled, run, engine,
                   announce, gateway, clock>>

(* srv.Shutdown: no new requests ...                                       *)
ShutdownBegins ==
    /\ Alive /\ gateway = "serving" /\ cancelled
    /\ gateway' = "closing"
    /\ UNCHANGED <<file, announces, serves, process, cancelled, run, engine,
                   announce, test, clock>>

(* Mutant: Shutdown with context.Background().                             *)
ShutdownWaitsForAll == test = "none"

(* Mutant: srv.Close() in place of srv.Shutdown.                           *)
CloseWaitsForNone == TRUE

(* ... and it returns when the handlers have, or after its timeout.        *)
ShutdownMayEnd == test = "none" \/ clock["shutdown"] >= ShutdownBound

ShutdownEnds ==
    /\ Alive /\ gateway = "closing" /\ ShutdownMayEnd
    /\ gateway' = "off"
    /\ UNCHANGED <<file, announces, serves, process, cancelled, run, engine,
                   announce, test, clock>>

----------------------------------------------------------------------------
(* The service manager.                                                    *)

Stop ==
    /\ process = "up"
    /\ process' = "stopping"
    /\ cancelled' = TRUE
    /\ UNCHANGED <<file, announces, serves, run, engine, announce, gateway, test, clock>>

(* Mutant: Stop waits for done alone.                                      *)
StopWaitsForDone == run \in {"failed", "returned"}

(* The select of Stop: done is closed, or the time is up.                  *)
StopMayReturn == run \in {"failed", "returned"} \/ clock["stop"] >= StopBound

StopReturns ==
    /\ process = "stopping" /\ StopMayReturn
    /\ process' = "exited"
    /\ UNCHANGED <<file, announces, serves, cancelled, run, engine, announce,
                   gateway, test, clock>>

----------------------------------------------------------------------------
(* Time.                                                                   *)

Due ==
    \/ run = "loading"
    \/ run = "waiting" /\ AllDone
    \/ engine = "on" /\ cancelled
    \/ announce = "lookup" /\ clock["lookup"] >= LookupBound
    \/ announce = "sending" /\ cancelled
    \/ gateway = "serving" /\ cancelled
    \/ gateway = "closing" /\ ShutdownMayEnd
    \/ test = "busy" /\ clock["test"] >= TestBound
    \/ process = "stopping" /\ StopMayReturn

Running(t) ==
    CASE t = "stop"     -> process = "stopping"
      [] t = "shutdown" -> gateway = "closing"
      [] t = "lookup"   -> announce = "lookup"
      [] t = "test"     -> test = "busy"

Tick ==
    /\ Alive /\ ~Due
    /\ clock' = [t \in Timers |-> IF Running(t) THEN clock[t] + 1 ELSE clock[t]]
    /\ UNCHANGED <<file, announces, serves, process, cancelled, run, engine,
                   announce, gateway, test>>

Next ==
    \/ RunFails \/ RunStarts \/ RunReturns
    \/ EngineEnds \/ LookupEnds \/ SendingEnds
    \/ ListenFails \/ TestPosted \/ TestEnds \/ ShutdownBegins \/ ShutdownEnds
    \/ Stop \/ StopReturns
    \/ Tick

Spec == Init /\ [][Next]_vars

----------------------------------------------------------------------------
(* Properties.                                                             *)

(* Stop waits "(bounded) for a clean shutdown" (app.go:184): only the      *)
(* lookup of an announcement, still running when the time is up, can make  *)
(* it give up on Run; never the engine, a delivery or a request that the   *)
(* gateway is waiting for.                                                 *)
OnlyTheLookupOutlastsStop ==
    process = "exited" /\ run = "waiting" =>
        /\ announces /\ clock["lookup"] >= StopBound
        /\ engine = "off" /\ GatewayIsOff

(* What a process that exits before the time is up may cut off: no event   *)
(* in delivery, no announcement and no Shutdown; but a /test request, with *)
(* the deliveries it makes, if Shutdown has waited its full time for it,   *)
(* or if the gateway ended without a Shutdown as ListenAndServe failed.     *)
EarlyExitIsClean ==
    process = "exited" /\ clock["stop"] < StopBound =>
        /\ engine # "on" /\ announce \in {"none", "off"} /\ GatewayIsOff
        /\ test = "busy" => gateway = "failed" \/ clock["shutdown"] >= ShutdownBound

(* The engine ends only because of Stop: no failure of the gateway, and no *)
(* request, takes the watching down.                                       *)
WatchesUntilStopped == engine = "off" => process # "up"

=============================================================================
