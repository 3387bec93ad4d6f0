----------------------------- MODULE MCCommands -----------------------------
(***************************************************************************)
(* Commands with files of every kind, and intervals at the edges of the    *)
(* type: MaxDuration is 255 units and a second 3 of them; a float has four *)
(* binary digits, so that MaxDuration is none, as 2^63 - 1 is none.        *)
(***************************************************************************)
EXTENDS Commands

CONSTANTS r1, r2

TwoRequests == {r1, r2}

FourDigits == LET positive == {m * 2^e : m \in 0 .. 15, e \in 0 .. 8}
              IN positive \cup {-f : f \in positive}

OnEveryProcessor == {-MaxDuration - 1, 0, MaxDuration}

Number(v)  == [form |-> "number", value |-> v]
Quoted(v)  == [form |-> "string", value |-> v]
Form(form) == [form |-> form, value |-> 0]

On(interval)  == [enabled |-> TRUE, interval |-> interval]
Off(interval) == [enabled |-> FALSE, interval |-> interval]

Telegram(id) == [type |-> "telegram", options |-> [token |-> "text", chat_id |-> id]]
Webhook      == [type |-> "webhook", options |-> [url |-> "text", headers |-> "map"]]
DingTalk     == [type |-> "dingtalk", options |-> [webhook |-> "text", secret |-> "null"]]
Nameless     == [type |-> "", options |-> [url |-> "text"]]

File(local, public, entries) ==
    [readable |-> TRUE, local |-> local, public |-> public, notifiers |-> entries]

(* 3 quarters of a second, of which a fraction of a unit is cut off;       *)
(* MaxDuration, which rounds out of range; less than a unit; a number half *)
(* way between two floats.                                                 *)
GoodFiles == {
    File(On(Number(3)), On(Number(340)), <<Telegram("text"), Webhook>>),
    File(On(Number(1)), Off(Number(-1)), <<DingTalk>>),
    File(Off(Quoted(-1)), On(Form("absent")), <<Webhook>>),
    File(On(Quoted(7)), On(Number(17)), <<Webhook, Telegram("text")>>)}

(* A chat_id without quotes, which YAML takes for a number; no watcher; no *)
(* type; a string out of range.                                            *)
BadFiles == {
    File(On(Form("nan")), On(Number(-700)), <<Webhook, Telegram("other")>>),
    File(Off(Number(1)), Off(Number(1)), <<Webhook>>),
    File(On(Quoted(1)), Off(Form("absent")), <<DingTalk, Nameless>>),
    File(On(Quoted(MaxDuration + 1)), Off(Form("absent")), <<DingTalk>>)}

AllFiles == GoodFiles \cup BadFiles

=============================================================================
