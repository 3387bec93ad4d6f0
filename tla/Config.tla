------------------------------- MODULE Config -------------------------------
(***************************************************************************)
(* What config.Load and app.BuildNotifiers make of a configuration file.   *)
(*                                                                         *)
(* A file is                                                               *)
(*   readable         os.ReadFile and the YAML parser have no complaint;   *)
(*   local, public    enabled, and the interval as it is written;          *)
(*   notifiers        a sequence of [type, options].                       *)
(*                                                                         *)
(* An interval is written in one of the forms "absent" (or null, or ""),   *)
(* "number", "nan" (or an infinity), "string" and "malformed".  The value  *)
(* of a string is what time.ParseDuration reads, in the units of           *)
(* time.Duration; that of a bare number is the seconds written, in parts   *)
(* of a second.  An option is "text", "empty", "null", "map" or "other";   *)
(* those not in the domain of options are not given.                       *)
(*                                                                         *)
(* A bare number becomes a float64, is multiplied by another and becomes   *)
(* an integer.  Floats are the numbers a float64 can hold; the first two   *)
(* steps end at the one nearest to the exact result (at either of two that *)
(* are equally near), the third drops the fraction.                        *)
(***************************************************************************)
EXTENDS Integers, Sequences, FiniteSets

CONSTANTS
    MaxDuration,    \* 2^63 - 1, the longest time.Duration
    Second,         \* time.Second
    Parts,          \* the parts of a unit in which numbers are counted: enough
                    \* for what is written and for Floats to be whole
    Floats,         \* the float64 values, in such parts
    Overflows       \* what float64 to int64 may give out of range; it depends
                    \* on the processor (the least on amd64, the nearest on arm64)

Representable == -MaxDuration - 1 .. MaxDuration

ASSUME ConfigAssumption ==
    /\ Second \in Nat \ {0} /\ MaxDuration \in Nat /\ MaxDuration >= 60 * Second
    /\ Parts \in Nat \ {0}
    /\ Floats # {} /\ Floats \subseteq Int /\ IsFiniteSet(Floats)
    /\ Overflows # {} /\ Overflows \subseteq Representable

DefaultLocalInterval  == 10 * Second
DefaultPublicInterval == 60 * Second

----------------------------------------------------------------------------
(* Duration.UnmarshalYAML.                                                 *)

Distance(u, v) == IF u <= v THEN v - u ELSE u - v

(* What a float64 operation with the exact result v may give.              *)
Nearest(v) == {f \in Floats : \A g \in Floats : Distance(f, v) <= Distance(g, v)}

(* node.Decode(&n), and n * float64(time.Second).                          *)
Products(v) == UNION {Nearest(n * Second) : n \in Nearest(v)}

(* The conversion of a float to an integer drops the fraction.             *)
Truncated(p) == IF p >= 0 THEN p \div Parts ELSE -((-p) \div Parts)

ToDuration(p) == IF Truncated(p) \in Representable THEN {Truncated(p)} ELSE Overflows

(* Mutant: time.Duration(n) * time.Second.                                 *)
OfWholeSeconds(v) ==
    UNION {ToDuration(Truncated(n) * Second * Parts) : n \in Nearest(v)}

(* time.Duration(n * float64(time.Second))                                 *)
OfSeconds(v) == UNION {ToDuration(p) : p \in Products(v)}

(* node.Decode or time.ParseDuration returns no error; the latter does     *)
(* when a string is out of range.                                          *)
Decodes(w) == w.form # "malformed" /\ (w.form = "string" => w.value \in Representable)

(* The durations that w, if it decodes, may become.                        *)
Durations(w) ==
    CASE w.form = "absent" -> {0}
      [] w.form = "string" -> {w.value}
      [] w.form = "number" -> OfSeconds(w.value)
      [] w.form = "nan"    -> Overflows

(* applyDefaults.  The watchers' New says the same once more.              *)
Intervals(w, default) == {IF d <= 0 THEN default ELSE d : d \in Durations(w)}

----------------------------------------------------------------------------
(* notifier.Build: the registry, and the options each New asks for.        *)

TelegramOptions == [required |-> {"token", "chat_id"}, optional |-> {"api_base"}]
FeishuOptions   == [required |-> {"webhook"}, optional |-> {"secret"}]
DingTalkOptions == [required |-> {"webhook"}, optional |-> {"secret"}]
WebhookOptions  == [required |-> {"url"}, optional |-> {}]

(* Each package's init registers its New.                                  *)
registry == [telegram |-> TelegramOptions, feishu |-> FeishuOptions,
             dingtalk |-> DingTalkOptions, webhook |-> WebhookOptions]

Given(e, key) ==
    IF key \notin DOMAIN e.options \/ e.options[key] = "null" THEN "nothing"
    ELSE e.options[key]

(* String(cfg, key, required) and StringMap(cfg, key) return no error.     *)
IsString(e, key, required) ==
    Given(e, key) \in IF required THEN {"text"} ELSE {"nothing", "empty", "text"}
IsStringMap(e, key) == Given(e, key) \in {"nothing", "map"}

Builds(e) ==
    /\ e.type \in DOMAIN registry
    /\ \A key \in registry[e.type].required : IsString(e, key, TRUE)
    /\ \A key \in registry[e.type].optional : IsString(e, key, FALSE)
    /\ e.type = "webhook" => IsStringMap(e, "headers")

----------------------------------------------------------------------------

(* Load succeeds: the file decodes, and validate accepts it.               *)
Loads(f) ==
    /\ f.readable
    /\ Decodes(f.local.interval) /\ Decodes(f.public.interval)
    /\ f.local.enabled \/ f.public.enabled
    /\ f.notifiers # <<>>
    /\ \A n \in DOMAIN f.notifiers : f.notifiers[n].type # ""

(* BuildNotifiers stops at the first notifier that cannot be built.        *)
KindOf(f) ==
    CASE ~Loads(f) -> "invalid"
      [] Loads(f) /\ \E n \in DOMAIN f.notifiers : ~Builds(f.notifiers[n]) -> "unbuildable"
      [] OTHER -> "good"

=============================================================================
