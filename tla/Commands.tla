------------------------------ MODULE Commands ------------------------------
(***************************************************************************)
(* The commands an administrator has beside POST /reload, against the same *)
(* file and the same service: `ipnotify validate` and `ipnotify test`,     *)
(* which are processes of their own, and POST /test, a request to the      *)
(* service.  One of them runs while the file is edited and the service is  *)
(* reloaded (module Reload); what a file holds is now told apart as far as *)
(* module Config does.                                                     *)
(***************************************************************************)
EXTENDS Config, Reload

CONSTANT Files      \* what the administrator may write

Written == [form : {"absent", "number", "nan", "string", "malformed"}, value : Int]

ASSUME CommandsAssumption ==
    \A f \in Files : /\ \A w \in {"local", "public"} : f[w].interval \in Written
                     /\ f.notifiers \in Seq({f.notifiers[n] : n \in DOMAIN f.notifiers})

VARIABLES
    content,    \* what each version of the file holds
    cmd         \* the command

allVars == <<vars, content, cmd>>

Commands == {"validate", "test", "/test"}

(* from is the version whose notifiers are used; pending are the           *)
(* goroutines of TestAll, results what they have written, took (history)   *)
(* the notifiers whose subscribers took the message; code is the exit or   *)
(* HTTP status; after (history) holds the reloads that had been answered   *)
(* with 200.                                                               *)
NoCommand == [name |-> "none", pc |-> "none", from |-> 0, pending |-> {}, took |-> {},
              results |-> <<>>, code |-> -1, after |-> {}]

(* Run has loaded and built version 0.                                     *)
CommandsInit ==
    /\ Init
    /\ \E f \in {g \in Files : KindOf(g) = "good"} : content = [v \in Versions |-> f]
    /\ cmd = NoCommand

----------------------------------------------------------------------------

EditFile(f) ==
    /\ Edit(KindOf(f))
    /\ content' = [content EXCEPT ![file + 1] = f]
    /\ UNCHANGED cmd

Reloading ==
    /\ \E r \in Requests : WrongMethod(r) \/ Post(r) \/ Handle(r)
    /\ UNCHANGED <<content, cmd>>

Dispatching ==
    /\ DispatchBegins \/ DispatchEnds
    /\ UNCHANGED <<content, cmd>>

Goes(c) == cmd' = c /\ UNCHANGED <<vars, content>>

(* The administrator enters the command.                                   *)
Enter(name) ==
    /\ cmd.pc = "none"
    /\ Goes([cmd EXCEPT !.name = name, !.pc = "entered",
                        !.after = {r \in Requests : req[r].pc = "answered" /\ req[r].code = 200}])

(* runValidate: the error of config.Load decides.                          *)
Validate ==
    /\ cmd.name = "validate" /\ cmd.pc = "entered"
    /\ Goes([cmd EXCEPT !.pc = "over", !.from = file,
                        !.code = IF Loads(content[file]) THEN 0 ELSE 1])

(* Mutant: RunTest goes on with the notifiers that could be built.         *)
TestLoadsSome ==
    /\ cmd.name = "test" /\ cmd.pc = "entered"
    /\ Goes(IF kind[file] # "invalid"
            THEN [cmd EXCEPT !.pc = "looking", !.from = file]
            ELSE [cmd EXCEPT !.pc = "over", !.from = file, !.code = 1])

(* RunTest loads the file and builds its notifiers, for an engine of its   *)
(* own, or runTest exits.                                                  *)
TestLoads ==
    /\ cmd.name = "test" /\ cmd.pc = "entered"
    /\ Goes(IF kind[file] = "good"
            THEN [cmd EXCEPT !.pc = "looking", !.from = file]
            ELSE [cmd EXCEPT !.pc = "over", !.from = file, !.code = 1])

(* handleTest turns down a GET, and otherwise calls TestAll on the engine  *)
(* that Run made.                                                          *)
TestGet ==
    /\ cmd.name = "/test" /\ cmd.pc = "entered"
    /\ Goes([cmd EXCEPT !.pc = "over", !.code = 405])

TestPost ==
    /\ cmd.name = "/test" /\ cmd.pc = "entered"
    /\ Goes([cmd EXCEPT !.pc = "looking"])

----------------------------------------------------------------------------
(* TestAll.                                                                *)

Used(c) == content[c.from].notifiers

(* Mutant: the notifiers the engine was made with.                         *)
LookUpForFirstSet ==
    /\ cmd.pc = "looking"
    /\ Goes([cmd EXCEPT !.pc = "sending", !.pending = DOMAIN Used(cmd),
                        !.results = [i \in DOMAIN Used(cmd) |-> "nothing"]])

(* The providers have returned.  Now the notifiers are copied, and a       *)
(* goroutine is started for each.                                          *)
LookUp ==
    /\ cmd.pc = "looking"
    /\ LET copied == IF cmd.name = "/test" THEN [cmd EXCEPT !.from = notifiers] ELSE cmd
       IN Goes([copied EXCEPT !.pc = "sending", !.pending = DOMAIN Used(copied),
                              !.results = [i \in DOMAIN Used(copied) |-> "nothing"]])

Result(i, ok) == [notifier |-> Used(cmd)[i].type, success |-> ok]

(* Mutant: results = append(results, r).                                   *)
FinishAppends(i, ok) ==
    /\ cmd.pc = "sending" /\ i \in cmd.pending
    /\ LET next == Len(cmd.results) - Cardinality(cmd.pending) + 1
       IN Goes([cmd EXCEPT !.pending = @ \ {i},
                           !.took = IF ok THEN @ \cup {i} ELSE @,
                           !.results[next] = Result(i, ok)])

(* A goroutine's Notify returns, and results[i] = r.                       *)
Finish(i, ok) ==
    /\ cmd.pc = "sending" /\ i \in cmd.pending
    /\ Goes([cmd EXCEPT !.pending = @ \ {i},
                        !.took = IF ok THEN @ \cup {i} ELSE @,
                        !.results[i] = Result(i, ok)])

(* wg.Wait() returns: handleTest answers with the results, runTest counts  *)
(* the failures.                                                           *)
Report ==
    /\ cmd.pc = "sending" /\ cmd.pending = {}
    /\ Goes([cmd EXCEPT !.pc = "over",
                        !.code = IF cmd.name = "/test" THEN 200
                                 ELSE IF \E i \in DOMAIN cmd.results : ~cmd.results[i].success
                                      THEN 1 ELSE 0])

Command ==
    \/ \E name \in Commands : Enter(name)
    \/ Validate
    \/ TestLoads \/ TestGet \/ TestPost
    \/ LookUp
    \/ \E i \in cmd.pending, ok \in BOOLEAN : Finish(i, ok)
    \/ Report

CommandsNext ==
    \/ \E f \in Files : EditFile(f)
    \/ Reloading
    \/ Dispatching
    \/ Command

CommandsSpec == CommandsInit /\ [][CommandsNext]_allVars

(* As in Reload.                                                           *)
CommandsFairSpec ==
    CommandsSpec /\ \A r \in Requests : WF_allVars(Handle(r) /\ UNCHANGED <<content, cmd>>)

----------------------------------------------------------------------------
(* Properties.                                                             *)

CommandsTypeOK ==
    /\ TypeOK
    /\ content \in [Versions -> Files]
    /\ cmd.name \in Commands \cup {"none"}
    /\ cmd.pc \in {"none", "entered", "looking", "sending", "over"}
    /\ cmd.from \in Versions
    /\ cmd.pending \subseteq DOMAIN Used(cmd) /\ cmd.took \subseteq DOMAIN Used(cmd)
    /\ cmd.code \in {-1, 0, 1, 200, 405}
    /\ cmd.after \subseteq Requests

(* TestAll reports on one set of notifiers, completely and in the file's   *)
(* order, in whatever order its goroutines end and whatever is installed   *)
(* meanwhile: result i says of notifier i whether it took the message, and *)
(* `ipnotify test` exits with 0 just when all did.                         *)
ResultsAreTheOutcomes ==
    cmd.pc = "over" /\ cmd.results # <<>> =>
        /\ cmd.results = [i \in DOMAIN Used(cmd) |-> Result(i, i \in cmd.took)]
        /\ cmd.name = "test" => (cmd.code = 0 <=> cmd.took = DOMAIN Used(cmd))

(* POST /test after a POST /reload that no other overlapped tries the      *)
(* notifiers of that reload, or later ones: never those it replaced.       *)
TestFollowsReload ==
    cmd.name = "/test" /\ cmd.results # <<>> =>
        \A r \in cmd.after \cap alone : cmd.from >= req[r].since

(* The commands foretell a reload of the version they read.  A file that   *)
(* `ipnotify validate` turns down is never installed, and one that         *)
(* `ipnotify test` could send with is never turned down.  The converse     *)
(* holds for test only: what validate accepts may still be turned down,    *)
(* but only for a notifier that cannot be built.                           *)
CommandsForetell ==
    \A r \in Requests : LET tried == req[r].pc = "answered" /\ req[r].got = cmd.from
                            ok    == tried /\ req[r].code = 200
                            fails == tried /\ req[r].code = 500
                        IN /\ cmd.name = "validate" /\ cmd.code = 1 => ~ok
                           /\ cmd.name = "validate" /\ cmd.code = 0 /\ fails =>
                                 \E n \in DOMAIN Used(cmd) : ~Builds(Used(cmd)[n])
                           /\ cmd.name = "test" /\ cmd.results # <<>> => ~fails
                           /\ cmd.name = "test" /\ cmd.pc = "over" /\ cmd.results = <<>> => ~ok

(* The numbers of seconds that need no rounding and are in range: all whole *)
(* seconds up to 146 years, among others.                                  *)
ExactSeconds ==
    {a \in Floats : a * Second \in Floats /\ Truncated(a * Second) \in 1 .. MaxDuration}

(* The interval that NewTicker gets for what is written.                   *)
IsSafe(written) ==
    \A default \in {DefaultLocalInterval, DefaultPublicInterval} :
        \A d \in Intervals(written, default) :
            /\ d \in 1 .. MaxDuration
            /\ written.form = "string" /\ written.value > 0 => d = written.value
            /\ written.form = "number" =>
                  \A a, b \in ExactSeconds :
                      a <= written.value /\ written.value <= b =>
                          d \in Truncated(a * Second) .. Truncated(b * Second)

UsableIntervals == {w \in {f[x].interval : f \in Files, x \in {"local", "public"}} :
                    Decodes(w) /\ IsSafe(w)}

(* Every watcher of a file that loads has an interval that NewTicker takes *)
(* (it panics at zero and below).  A string of a positive length gives     *)
(* exactly that.  A number is rounded, twice, and then cut off; but if it  *)
(* has exact numbers on both sides, what comes out is not outside what     *)
(* they give, and neither the default nor an overflow takes its place.     *)
IntervalsAreSafe ==
    \A v \in 0 .. file, x \in {"local", "public"} :
        kind[v] # "invalid" /\ content[v][x].enabled =>
            content[v][x].interval \in UsableIntervals

=============================================================================
