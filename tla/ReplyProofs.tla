---------------------------- MODULE ReplyProofs ----------------------------
(***************************************************************************)
(* Theorems about Reply, for every number of retries: a success is true    *)
(* but for the replies named, and so is an error.                          *)
(***************************************************************************)
EXTENDS Reply, TLAPS

LEMMA RepliesAreReplies ==
    ASSUME NEW t, NEW r,
           r \in Accepting(t) \cup Refusing(t) \cup StrangeReplies \cup {NoReply}
    PROVE  r \in Replies \cup {NoReply}
BY DEF Accepting, Refusing, StrangeReplies

(* A call ends: the calls before it stay as they were.                     *)
LEMMA EndsFacts ==
    ASSUME TypeOK, NEW took \in BOOLEAN, NEW r \in Replies \cup {NoReply}, Ends(took, r)
    PROVE  /\ TypeOK'
           /\ attempt' = attempt
           /\ Len(calls') = attempt + 1
           /\ \A i \in 1 .. attempt : calls'[i] = calls[i]
           /\ calls'[attempt + 1] = [took |-> took, reply |-> r]
           /\ pc' = "judging" /\ success' = success /\ type' = type
<1>1. [took |-> took, reply |-> r] \in Calls
  BY Zenon DEF Calls
<1>2. calls \in Seq(Calls) /\ Len(calls) = attempt /\ attempt \in Nat
  BY ReplyAssumption DEF TypeOK, Ends
<1> HIDE DEF Calls
<1>3. /\ calls' \in Seq(Calls) /\ Len(calls') = attempt + 1
      /\ \A i \in 1 .. attempt : calls'[i] = calls[i]
      /\ calls'[attempt + 1] = [took |-> took, reply |-> r]
  BY <1>1, <1>2 DEF Ends
<1> QED
  BY <1>3 DEF TypeOK, Ends

LEMMA JudgeFacts ==
    ASSUME TypeOK, Judge
    PROVE  /\ TypeOK'
           /\ calls' = calls /\ type' = type
           /\ \/ pc' = "done" /\ attempt' = attempt
              \/ pc' = "calling" /\ attempt' = attempt + 1
<1>1. success' \in BOOLEAN
  BY Zenon DEF Judge
<1>2. attempt \in 0 .. MaxRetries /\ Len(calls) = attempt + 1
  BY DEF TypeOK, Judge
<1>3. \/ pc' = "done" /\ attempt' = attempt
      \/ pc' = "calling" /\ attempt' = attempt + 1 /\ attempt # MaxRetries
  BY DEF Judge
<1> QED
  BY <1>1, <1>2, <1>3, ReplyAssumption DEF TypeOK, Judge

(* The loop makes at most MaxRetries + 1 calls.                            *)
THEOREM TypeCorrect == Spec => []TypeOK
<1>1. Init => TypeOK
  <2> SUFFICES ASSUME Init PROVE TypeOK
    OBVIOUS
  <2>1. calls \in Seq(Calls) /\ Len(calls) = 0
    BY DEF Init
  <2>2. 0 \in 0 .. MaxRetries
    BY ReplyAssumption
  <2>3. success \in BOOLEAN
    BY Zenon DEF Init
  <2>4. Len(calls) = IF pc = "calling" THEN attempt ELSE attempt + 1
    BY <2>1 DEF Init
  <2> QED
    BY <2>1, <2>2, <2>3, <2>4 DEF Init, TypeOK
<1>2. TypeOK /\ [Next]_vars => TypeOK'
  <2> SUFFICES ASSUME TypeOK, [Next]_vars PROVE TypeOK'
    OBVIOUS
  <2>1. ASSUME Taken \/ Refused \/ NotReached PROVE TypeOK'
    BY <2>1, EndsFacts, RepliesAreReplies, Zenon DEF Taken, Refused, NotReached
  <2>2. CASE Judge
    BY <2>2, JudgeFacts
  <2>3. CASE UNCHANGED vars
    BY <2>3 DEF TypeOK, vars
  <2> QED
    BY <2>1, <2>2, <2>3 DEF Next
<1> QED
  BY <1>1, <1>2, PTL DEF Spec

----------------------------------------------------------------------------
(* The inductive invariant: no call before the one in hand was judged a    *)
(* success, and each was as one of the services, or of what may answer in  *)
(* their place, ends one.                                                  *)

Verdict(c) == c.reply # NoReply /\ Accepts(type, c.reply)

Honest(c) ==
    \/ c.took  /\ c.reply \in Accepting(type) \cup {NoReply}
    \/ ~c.took /\ c.reply \in Refusing(type) \cup StrangeReplies \cup {NoReply}

History ==
    /\ \A i \in DOMAIN calls : Honest(calls[i])
    /\ \A i \in 1 .. attempt : ~Verdict(calls[i])
    /\ pc \in {"calling", "judging"} => ~success
    /\ pc = "done" => (success <=> Verdict(calls[attempt + 1]))

LEMMA StepHistory ==
    ASSUME TypeOK, History, [Next]_vars PROVE History'
<1> USE ReplyAssumption
<1>0. /\ calls \in Seq(Calls) /\ attempt \in Nat
      /\ Len(calls) = IF pc = "calling" THEN attempt ELSE attempt + 1
  BY DEF TypeOK
<1>1. ASSUME NEW took \in BOOLEAN,
             NEW r \in Replies \cup {NoReply}, Ends(took, r),
             Honest([took |-> took, reply |-> r])
      PROVE  History'
  <2>1. /\ attempt' = attempt /\ Len(calls') = attempt + 1
        /\ \A i \in 1 .. attempt : calls'[i] = calls[i]
        /\ calls'[attempt + 1] = [took |-> took, reply |-> r]
        /\ pc' = "judging" /\ success' = success /\ type' = type
        /\ TypeOK'
    BY <1>1, EndsFacts
  <2>2. DOMAIN calls = 1 .. attempt /\ pc = "calling"
    BY <1>0, <1>1 DEF Ends
  <2>3. DOMAIN calls' = 1 .. attempt + 1
    BY <2>1 DEF TypeOK
  <2>4. ASSUME NEW i \in DOMAIN calls' PROVE Honest(calls[i])' 
    <3>1. CASE i = attempt + 1
      BY <1>1, <2>1, <3>1 DEF Honest
    <3>2. CASE i # attempt + 1
      <4>1. i \in 1 .. attempt
        BY <1>0, <2>3, <3>2
      <4> QED
        BY <2>1, <2>2, <4>1 DEF History, Honest
    <3> QED
      BY <3>1, <3>2
  <2>5. ASSUME NEW i \in 1 .. attempt' PROVE ~Verdict(calls[i])'
    BY <2>1, <2>5 DEF History, Verdict
  <2>6. ~success
    BY <2>2 DEF History
  <2> QED
    BY <2>1, <2>4, <2>5, <2>6 DEF History
<1>2. CASE Taken
  <2>1. PICK r \in Accepting(type) \cup {NoReply} : Ends(TRUE, r)
    BY <1>2 DEF Taken
  <2>2. Honest([took |-> TRUE, reply |-> r])
    BY <2>1 DEF Honest
  <2> QED
    BY <1>1, <2>1, <2>2, RepliesAreReplies
<1>3. CASE Refused \/ NotReached
  <2>1. PICK r \in Refusing(type) \cup StrangeReplies \cup {NoReply} : Ends(FALSE, r)
    BY <1>3 DEF Refused, NotReached
  <2>2. Honest([took |-> FALSE, reply |-> r])
    BY <2>1 DEF Honest
  <2> QED
    BY <1>1, <2>1, <2>2, RepliesAreReplies
<1>4. CASE Judge
  <2>1. /\ calls' = calls /\ type' = type
        /\ \/ pc' = "done" /\ attempt' = attempt
           \/ pc' = "calling" /\ attempt' = attempt + 1
    BY <1>4, JudgeFacts
  <2>2. success' <=> Verdict(calls[attempt + 1])
    <3>1. Len(calls) = attempt + 1
      BY <1>0, <1>4 DEF Judge
    <3> QED
      BY <1>4, <3>1 DEF Judge, Verdict, Reply
  <2>3. pc' = "calling" => ~success'
    BY <1>4 DEF Judge
  <2>4. \A c : (Honest(c)' <=> Honest(c)) /\ (Verdict(c)' <=> Verdict(c))
    BY <2>1 DEF Honest, Verdict
  <2>5. ASSUME NEW i \in 1 .. attempt' PROVE ~Verdict(calls[i])
    <3>1. i \in 1 .. attempt \/ (i = attempt + 1 /\ ~success')
      BY <1>0, <2>1, <2>3
    <3> QED
      BY <2>2, <3>1 DEF History
  <2> QED
    BY <2>1, <2>2, <2>3, <2>4, <2>5 DEF History
<1>5. CASE UNCHANGED vars
  BY <1>5 DEF History, Honest, Verdict, vars
<1> QED
  BY <1>2, <1>3, <1>4, <1>5 DEF Next

LEMMA HistoryHolds == Spec => []History
<1>1. Init => History
  BY DEF Init, History
<1>2. TypeOK /\ History /\ [Next]_vars => History'
  BY StepHistory
<1> QED
  BY <1>1, <1>2, TypeCorrect, PTL DEF Spec

----------------------------------------------------------------------------

(* Which replies are taken for a yes that are none, and for a no that is.  *)
LEMMA Misjudged ==
    ASSUME NEW c \in Calls, type \in AllTypes, Honest(c)
    PROVE  /\ Verdict(c) /\ ~c.took =>
                 /\ type # "telegram"
                 /\ Stated(c.reply) = "none"
                 /\ c.reply.status \in {200, 204}
           /\ ~Verdict(c) /\ c.took =>
                 c.reply = NoReply \/ (type = "telegram" /\ c.reply.body # "whole")
<1> USE DEF Calls, Replies, Statuses, NoReply
<1>1. CASE type = "telegram"
  BY <1>1 DEF Honest, Verdict, Accepting, Refusing, StrangeReplies, Accepts, TelegramAccepts, Stated
<1>2. CASE type = "feishu"
  BY <1>2 DEF Honest, Verdict, Accepting, Refusing, StrangeReplies, Accepts, FeishuAccepts, Stated
<1>3. CASE type = "dingtalk"
  BY <1>3 DEF Honest, Verdict, Accepting, Refusing, StrangeReplies, Accepts, DingTalkAccepts, Stated
<1>4. CASE type = "webhook"
  BY <1>4 DEF Honest, Verdict, Accepting, Refusing, StrangeReplies, Accepts, WebhookAccepts, Stated
<1> QED
  BY <1>1, <1>2, <1>3, <1>4 DEF AllTypes

(* A success on /status is the service's own word, with the exceptions     *)
(* that SuccessIsTrue names.                                               *)
THEOREM SuccessTrue == Spec => []SuccessIsTrue
<1>1. ASSUME TypeOK, History PROVE SuccessIsTrue
  <2> SUFFICES ASSUME success PROVE SuccessIsTrue
    BY DEF SuccessIsTrue
  <2>1. pc = "done" /\ Verdict(calls[attempt + 1])
    BY <1>1 DEF TypeOK, History
  <2>2. attempt + 1 \in DOMAIN calls /\ calls[attempt + 1] \in Calls
    BY <1>1, <2>1, ReplyAssumption DEF TypeOK
  <2>3. Honest(calls[attempt + 1]) /\ type \in AllTypes
    BY <1>1, <2>2, ReplyAssumption DEF History, TypeOK
  <2> QED
    BY <2>1, <2>2, <2>3, Misjudged DEF SuccessIsTrue
<1> QED
  BY <1>1, TypeCorrect, HistoryHolds, PTL

(* An error for a message that is out all the same, with its causes.       *)
THEOREM ErrorsTrue == Spec => []ErrorsAreTrue
<1>1. ASSUME TypeOK, History PROVE ErrorsAreTrue
  <2> SUFFICES ASSUME NEW i \in DOMAIN calls, calls[i].took,
                      i <= attempt \/ (pc = "done" /\ ~success)
               PROVE  \/ calls[i].reply = NoReply
                      \/ (type = "telegram" /\ calls[i].reply.body # "whole")
    BY DEF ErrorsAreTrue
  <2>1. calls[i] \in Calls /\ Honest(calls[i]) /\ type \in AllTypes
    BY <1>1, ReplyAssumption DEF History, TypeOK
  <2>2. i \in 1 .. attempt \/ (i = attempt + 1 /\ pc = "done" /\ ~success)
    BY <1>1, ReplyAssumption DEF TypeOK
  <2>3. ~Verdict(calls[i])
    BY <1>1, <2>2 DEF History
  <2> QED
    BY <2>1, <2>3, Misjudged
<1> QED
  BY <1>1, TypeCorrect, HistoryHolds, PTL

=============================================================================
