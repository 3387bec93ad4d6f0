------------------------------- MODULE Reply -------------------------------
(***************************************************************************)
(* How the Notify of each kind of notifier tells from the HTTP response    *)
(* whether the service has taken the message, and what deliver, which      *)
(* tries again after every error, makes of the verdict.  Delivery has the  *)
(* outcomes of a call ("ok", "refused", "lost"); here is where they come   *)
(* from.                                                                   *)
(*                                                                         *)
(* A reply has a status, the verdict that its body states ("yes" or "no"   *)
(* as JSON, in the field and of the type that Notify looks for; "none" for *)
(* anything else) and how much of the body Notify gets to see: the whole,  *)
(* or not, because it is longer than the 512 bytes that Notify reads, or   *)
(* because it breaks off: the connection is lost, or the client's timeout  *)
(* or the end of nctx comes, after the header and before the last byte.    *)
(***************************************************************************)
EXTENDS Integers, Sequences

CONSTANTS
    Types,      \* the kinds of notifier this instance looks at
    MaxRetries  \* Engine.maxRetries (2 in the code)

AllTypes == {"telegram", "feishu", "dingtalk", "webhook"}

ASSUME ReplyAssumption == Types \subseteq AllTypes /\ MaxRetries \in Nat

Statuses == {200, 204, 400, 500}
Replies  == [status : Statuses, verdict : {"yes", "no", "none"},
             body : {"whole", "long", "broken"}]
NoReply  == [status |-> 0, verdict |-> "none", body |-> "whole"]

(* What became of one call: whether the service has taken the message, and *)
(* what came back.                                                         *)
Calls == [took : BOOLEAN, reply : Replies \cup {NoReply}]

VARIABLES
    type,       \* the notifier
    pc,         \* "calling", "judging", "done"
    attempt,    \* deliver's counter
    calls,      \* history: the calls made
    success     \* LastNotify[type].Success

vars == <<type, pc, attempt, calls, success>>

TypeOK ==
    /\ type \in Types
    /\ pc \in {"calling", "judging", "done"}
    /\ attempt \in 0 .. MaxRetries
    /\ calls \in Seq(Calls)
    /\ Len(calls) = IF pc = "calling" THEN attempt ELSE attempt + 1
    /\ success \in BOOLEAN

Init ==
    /\ type \in Types
    /\ pc = "calling"
    /\ attempt = 0
    /\ calls = <<>>
    /\ success = FALSE

Reply == calls[Len(calls)].reply

----------------------------------------------------------------------------
(* The services.  The chat services state in the body whether they took    *)
(* the message, and may answer 200 also when they did not; a webhook's     *)
(* status is all there is.                                                 *)

Accepting(t) ==
    IF t = "webhook" THEN {r \in Replies : r.status \in {200, 204}}
    ELSE {r \in Replies : r.status = 200 /\ r.verdict = "yes"}

Refusing(t) ==
    IF t = "webhook" THEN {r \in Replies : r.status \in {400, 500}}
    ELSE {r \in Replies : r.status \in {200, 400, 500} /\ r.verdict = "no"}

(* What a proxy or a portal says in the service's place.                   *)
StrangeReplies == {r \in Replies : r.verdict = "none"}

----------------------------------------------------------------------------
(* The end of each Notify.  ReadAll of a LimitReader cuts a long body off, *)
(* and when reading fails it returns what it has, with an error that is    *)
(* ignored.  Either way what is left is not JSON, Unmarshal fails before   *)
(* it sets a field, that error is ignored too, and the fields have their   *)
(* zero values.                                                            *)

Stated(r) == IF r.body = "whole" THEN r.verdict ELSE "none"

(* Mutant: ok is not looked at.                                            *)
TelegramByStatus(r) == r.status = 200

(* resp.StatusCode != 200 || !r.OK is an error.                            *)
TelegramAccepts(r) == r.status = 200 /\ Stated(r) = "yes"

(* ... || r.Code != 0: without a body that says otherwise, Code is 0.      *)
FeishuAccepts(r) == r.status = 200 /\ Stated(r) # "no"

(* ... || r.ErrCode != 0                                                   *)
DingTalkAccepts(r) == r.status = 200 /\ Stated(r) # "no"

(* Mutant: any status but 200 is an error.                                 *)
WebhookExactly200(r) == r.status = 200

(* resp.StatusCode < 200 || resp.StatusCode >= 300 is an error.            *)
WebhookAccepts(r) == r.status \in 200 .. 299

Accepts(t, r) ==
    CASE t = "telegram" -> TelegramAccepts(r)
      [] t = "feishu"   -> FeishuAccepts(r)
      [] t = "dingtalk" -> DingTalkAccepts(r)
      [] t = "webhook"  -> WebhookAccepts(r)

----------------------------------------------------------------------------
(* One call.                                                               *)

Ends(took, r) ==
    /\ pc = "calling"
    /\ calls' = Append(calls, [took |-> took, reply |-> r])
    /\ pc' = "judging"
    /\ UNCHANGED <<type, attempt, success>>

(* The service takes the message, and its answer arrives or does not.      *)
Taken == \E r \in Accepting(type) \cup {NoReply} : Ends(TRUE, r)

(* It says no.                                                             *)
Refused == \E r \in Refusing(type) : Ends(FALSE, r)

(* client.Do or NewRequestWithContext returns an error, nothing was sent;  *)
(* or something else answers.                                              *)
NotReached == \E r \in StrangeReplies \cup {NoReply} : Ends(FALSE, r)

(* Notify returns, deliver records the outcome and returns or goes on.     *)
Judge ==
    /\ pc = "judging"
    /\ success' = (Reply # NoReply /\ Accepts(type, Reply))
    /\ IF success' \/ attempt = MaxRetries
       THEN pc' = "done" /\ attempt' = attempt
       ELSE pc' = "calling" /\ attempt' = attempt + 1
    /\ UNCHANGED <<type, calls>>

Next == Taken \/ Refused \/ NotReached \/ Judge

Spec == Init /\ [][Next]_vars

----------------------------------------------------------------------------
(* Properties.                                                             *)

(* A Success that /status shows is the service's own word, and the word    *)
(* of the last call: except that feishu and dingtalk take 200 with a page  *)
(* of somebody else, or with a refusal that is longer than 512 bytes or    *)
(* breaks off, for a yes, and webhook whatever answers 2xx in its place.   *)
(* Telegram's is always true, whoever answers and however little arrives.  *)
SuccessIsTrue ==
    success =>
        \/ calls[attempt + 1].took
        \/ /\ type # "telegram"
           /\ Stated(calls[attempt + 1].reply) = "none"
           /\ calls[attempt + 1].reply.status \in {200, 204}

(* An error after which the message is out all the same, so that it is     *)
(* sent again or stays on /status as a failure, has one of two causes: no  *)
(* answer arrived, or it was Telegram's, and longer than 512 bytes or      *)
(* broken off.  In particular feishu, dingtalk and webhook make no second  *)
(* copy of a message once the header of its answer has arrived.            *)
ErrorsAreTrue ==
    \A i \in DOMAIN calls :
        calls[i].took /\ (i <= attempt \/ (pc = "done" /\ ~success)) =>
            \/ calls[i].reply = NoReply
            \/ (type = "telegram" /\ calls[i].reply.body # "whole")

=============================================================================
