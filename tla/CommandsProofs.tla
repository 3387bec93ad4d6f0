--------------------------- MODULE CommandsProofs ---------------------------
(***************************************************************************)
(* Theorems about Reload and Commands.  First of the service alone, with   *)
(* any number of overlapping requests: which sets of notifiers it can use, *)
(* and what an answer of 200 promises.  Then of the commands beside it:    *)
(* the service is still the one of Reload, whose theorems therefore hold   *)
(* of it; the intervals of any file; what a test reports and which         *)
(* notifiers it tries; and what the commands foretell of a reload.         *)
(***************************************************************************)
EXTENDS Commands, TLAPS

(***************************************************************************)
(* Reload.                                                                 *)
(***************************************************************************)

USE DEF Versions, Kinds, Idle

(* One step of one handler.                                                *)
Becomes(r, h) == req' = [req EXCEPT ![r] = h]

LEMMA Rewritten ==
    ASSUME TypeOK, NEW r \in Requests, NEW h \in Handlers, Becomes(r, h)
    PROVE  /\ req' \in [Requests -> Handlers] /\ req'[r] = h
           /\ \A s \in Requests : s # r => req'[s] = req[s]
  BY DEF TypeOK, Becomes

(* The steps of a request, as what they make of its record.                *)
LEMMA RequestSteps ==
    ASSUME ReloadAssumption, TypeOK, NEW r \in Requests,
           WrongMethod(r) \/ Handle(r)
    PROVE  /\ req' \in [Requests -> Handlers]
           /\ \A s \in Requests : s # r => req'[s] = req[s]
           /\ UNCHANGED <<file, kind, dispatch, alone>>
           /\ \/ /\ req[r].pc = "none" /\ req'[r].pc = "answered" /\ req'[r].code = 405
                 /\ req'[r].since = req[r].since /\ req'[r].got = req[r].got
                 /\ notifiers' = notifiers
              \/ /\ req[r].pc = "posted" /\ kind[file] = "good" /\ req'[r].pc = "built"
                 /\ req'[r].got = file /\ req'[r].since = req[r].since
                 /\ req'[r].code = req[r].code
                 /\ notifiers' = notifiers
              \/ /\ req[r].pc = "posted" /\ kind[file] # "good" /\ req'[r].pc = "answered"
                 /\ req'[r].code = 500 /\ req'[r].got = file /\ req'[r].since = req[r].since
                 /\ notifiers' = notifiers
              \/ /\ req[r].pc = "built" /\ req'[r].pc = "installed"
                 /\ req'[r].since = req[r].since /\ req'[r].got = req[r].got
                 /\ req'[r].code = req[r].code
                 /\ notifiers' = req[r].got
              \/ /\ req[r].pc = "installed" /\ req'[r].pc = "answered"
                 /\ req'[r].code = 200
                 /\ req'[r].since = req[r].since /\ req'[r].got = req[r].got
                 /\ notifiers' = notifiers
<1> DEFINE q == req[r]
<1>0. q \in Handlers /\ file \in Versions
  BY DEF TypeOK
<1>1. CASE WrongMethod(r)
  <2> DEFINE h == [q EXCEPT !.pc = "answered", !.code = 405]
  <2>1. Becomes(r, h)
    BY <1>1 DEF WrongMethod, Becomes
  <2>2. h \in Handlers /\ h.pc = "answered" /\ h.code = 405 /\ h.since = q.since /\ h.got = q.got
    BY <1>0 DEF Handlers
  <2> HIDE DEF h
  <2> QED
    BY <1>1, <2>1, <2>2, Rewritten DEF WrongMethod
<1>2. CASE Load(r)
  <2> DEFINE h == [q EXCEPT !.pc = "built", !.got = file]
  <2>1. Becomes(r, h)
    BY <1>2 DEF Load, Becomes
  <2>2. h \in Handlers /\ h.pc = "built" /\ h.got = file /\ h.since = q.since /\ h.code = q.code
    BY <1>0 DEF Handlers
  <2> HIDE DEF h
  <2> QED
    BY <1>2, <2>1, <2>2, Rewritten DEF Load
<1>3. CASE LoadFails(r)
  <2> DEFINE h == [q EXCEPT !.pc = "answered", !.code = 500, !.got = file]
  <2>1. Becomes(r, h)
    BY <1>3 DEF LoadFails, Becomes
  <2>2. /\ h \in Handlers /\ h.pc = "answered" /\ h.code = 500 /\ h.since = q.since
        /\ h.got = file
    BY <1>0 DEF Handlers
  <2>3. /\ q.pc = "posted" /\ kind[file] # "good" /\ notifiers' = notifiers
        /\ UNCHANGED <<file, kind, dispatch, alone>>
    BY <1>3 DEF LoadFails
  <2> HIDE DEF h
  <2>4. req' \in [Requests -> Handlers] /\ req'[r] = h
        /\ \A s \in Requests : s # r => req'[s] = req[s]
    BY <2>1, <2>2, Rewritten
  <2> QED
    BY <2>2, <2>3, <2>4
<1>4. CASE Install(r)
  <2> DEFINE h == [q EXCEPT !.pc = "installed"]
  <2>1. Becomes(r, h)
    BY <1>4 DEF Install, Becomes
  <2>2. /\ h \in Handlers /\ h.pc = "installed"
        /\ h.since = q.since /\ h.got = q.got /\ h.code = q.code
    BY <1>0 DEF Handlers
  <2> HIDE DEF h
  <2> QED
    BY <1>4, <2>1, <2>2, Rewritten DEF Install
<1>5. CASE Answer(r)
  <2> DEFINE h == [q EXCEPT !.pc = "answered", !.code = 200]
  <2>1. Becomes(r, h)
    BY <1>5 DEF Answer, Becomes
  <2>2. /\ h \in Handlers /\ h.pc = "answered" /\ h.code = 200
        /\ h.since = q.since /\ h.got = q.got
    BY <1>0 DEF Handlers
  <2> HIDE DEF h
  <2> QED
    BY <1>5, <2>1, <2>2, Rewritten DEF Answer
<1> QED
  BY <1>1, <1>2, <1>3, <1>4, <1>5 DEF Handle

(* A new request, and what it means for those that are pending.            *)
LEMMA PostStep ==
    ASSUME ReloadAssumption, TypeOK, NEW r \in Requests, Post(r)
    PROVE  /\ req' \in [Requests -> Handlers] /\ alone' \subseteq Requests
           /\ UNCHANGED <<file, kind, notifiers, dispatch>>
           /\ req[r].pc = "none" /\ req'[r].pc = "posted" /\ req'[r].since = file
           /\ \A s \in Requests : s # r => req'[s] = req[s]
           /\ r \in alone' => \A s \in Requests : ~Pending(s)
           /\ \A s \in Requests : s # r /\ s \in alone' => s \in alone /\ ~Pending(s)
<1> DEFINE q == req[r]
           h == [q EXCEPT !.pc = "posted", !.since = file]
<1>1. q \in Handlers /\ file \in Versions
  BY DEF TypeOK
<1>2. Becomes(r, h)
  BY DEF Post, Becomes
<1>3. h \in Handlers /\ h.pc = "posted" /\ h.since = file
  BY <1>1 DEF Handlers
<1>4. q.pc = "none" /\ UNCHANGED <<file, kind, notifiers, dispatch>>
  BY DEF Post
<1> HIDE DEF h
<1>5. /\ req' \in [Requests -> Handlers] /\ req'[r] = h
      /\ \A s \in Requests : s # r => req'[s] = req[s]
  BY <1>2, <1>3, Rewritten
<1>6. /\ alone' \subseteq Requests
      /\ r \in alone' => \A s \in Requests : ~Pending(s)
      /\ \A s \in Requests : s # r /\ s \in alone' => s \in alone /\ ~Pending(s)
  <2>1. CASE InFlight = {}
    BY <2>1 DEF Post, TypeOK, InFlight
  <2>2. CASE InFlight # {}
    BY <2>2 DEF Post, TypeOK, InFlight
  <2> QED
    BY <2>1, <2>2
<1> QED
  BY <1>3, <1>4, <1>5, <1>6

----------------------------------------------------------------------------
(* What holds however requests overlap.                                    *)

BuiltInv ==
    /\ notifiers <= file /\ kind[notifiers] = "good"
    /\ dispatch # Idle => dispatch <= file /\ kind[dispatch] = "good"
    /\ \A r \in Requests :
           /\ req[r].since <= file
           /\ req[r].pc \in {"built", "installed"} =>
                  req[r].since <= req[r].got /\ req[r].got <= file /\ kind[req[r].got] = "good"

LEMMA BuiltStep ==
    ASSUME ReloadAssumption, TypeOK, BuiltInv, [Next]_vars PROVE TypeOK' /\ BuiltInv'
<1>0. file \in Nat /\ MaxEdits \in Nat /\ notifiers \in Nat
      /\ \A r \in Requests : req[r] \in Handlers /\ req[r].since \in Versions /\ req[r].got \in Versions
  BY DEF TypeOK, ReloadAssumption, Handlers
<1>1. ASSUME NEW k \in Kinds, Edit(k) PROVE TypeOK' /\ BuiltInv'
  <2>1. /\ file' = file + 1 /\ file' \in Versions
        /\ kind' \in [Versions -> Kinds]
        /\ \A v \in Versions : v <= file => kind'[v] = kind[v]
        /\ UNCHANGED <<notifiers, dispatch, req, alone>>
    BY <1>0, <1>1 DEF Edit, TypeOK
  <2>2. BuiltInv'
    BY <1>0, <2>1 DEF BuiltInv, TypeOK
  <2> QED
    BY <2>1, <2>2 DEF TypeOK
<1>2. ASSUME NEW r \in Requests, WrongMethod(r) \/ Handle(r)
      PROVE  TypeOK' /\ BuiltInv'
  <2>1. notifiers' \in {notifiers, req[r].got}
    BY <1>2, RequestSteps
  <2>2. TypeOK'
    <3>1. req' \in [Requests -> Handlers] /\ UNCHANGED <<file, kind, dispatch, alone>>
      BY <1>2, RequestSteps
    <3>2. notifiers' \in Versions
      BY <1>0, <2>1 DEF TypeOK
    <3> QED
      BY <3>1, <3>2 DEF TypeOK
  <2>3. /\ req'[r].since <= file
        /\ req'[r].pc \in {"built", "installed"} =>
               /\ req'[r].since <= req'[r].got /\ req'[r].got <= file
               /\ kind[req'[r].got] = "good"
    BY <1>0, <1>2, RequestSteps DEF BuiltInv
  <2>4. notifiers' <= file /\ kind[notifiers'] = "good"
    BY <1>0, <1>2, RequestSteps DEF BuiltInv
  <2>5. \A s \in Requests : s # r => req'[s] = req[s]
    BY <1>2, RequestSteps
  <2>6. file' = file /\ kind' = kind /\ dispatch' = dispatch
    BY <1>2, RequestSteps
  <2>7. ASSUME NEW s \in Requests
        PROVE  /\ req'[s].since <= file
               /\ req'[s].pc \in {"built", "installed"} =>
                      /\ req'[s].since <= req'[s].got /\ req'[s].got <= file
                      /\ kind[req'[s].got] = "good"
    BY <2>3, <2>5 DEF BuiltInv
  <2> QED
    BY <2>2, <2>4, <2>6, <2>7 DEF BuiltInv
<1>3. ASSUME DispatchBegins \/ DispatchEnds \/ UNCHANGED vars PROVE TypeOK' /\ BuiltInv'
  BY <1>3 DEF DispatchBegins, DispatchEnds, vars, TypeOK, BuiltInv
<1>4. ASSUME NEW r \in Requests, Post(r) PROVE TypeOK' /\ BuiltInv'
  <2>1. TypeOK'
    BY <1>4, PostStep DEF TypeOK
  <2>2. ASSUME NEW s \in Requests
        PROVE  /\ req'[s].since <= file
               /\ req'[s].pc \in {"built", "installed"} =>
                      /\ req'[s].since <= req'[s].got /\ req'[s].got <= file
                      /\ kind[req'[s].got] = "good"
    <3>1. CASE s = r
      <4>1. req'[s].since = file /\ req'[s].pc = "posted"
        BY <1>4, <3>1, PostStep
      <4> QED
        BY <1>0, <4>1
    <3>2. CASE s # r
      BY <1>4, <3>2, PostStep DEF BuiltInv
    <3> QED
      BY <3>1, <3>2
  <2> QED
    BY <1>4, <2>1, <2>2, PostStep DEF BuiltInv
<1> QED
  BY <1>1, <1>2, <1>3, <1>4 DEF Next

LEMMA BuiltHolds == Spec => [](TypeOK /\ BuiltInv)
<1>1. ReloadAssumption /\ Init => TypeOK /\ BuiltInv
  BY DEF ReloadAssumption, Init, TypeOK, BuiltInv, Handlers
<1>2. (TypeOK /\ BuiltInv) /\ [Next]_vars => (TypeOK /\ BuiltInv)'
  BY BuiltStep, ReloadAssumption
<1> QED
  BY <1>1, <1>2, ReloadAssumption, PTL DEF Spec

(* Every variable keeps its type.                                          *)
THEOREM TypeCorrect == Spec => []TypeOK
  BY BuiltHolds, PTL

(* The engine only ever uses sets built completely from a valid file.      *)
THEOREM OnlyBuiltSets == Spec => []OnlyBuiltSetsAreUsed
<1>1. BuiltInv => OnlyBuiltSetsAreUsed
  BY DEF BuiltInv, OnlyBuiltSetsAreUsed
<1> QED
  BY <1>1, BuiltHolds, PTL

----------------------------------------------------------------------------
(* A request that is alone sees no other come, go or install; when it has  *)
(* been answered, those that are pending came after it.                    *)

Answered200(r) == req[r].pc = "answered" /\ req[r].code = 200

LoneInv ==
    /\ \A r, s \in Requests : Pending(r) /\ Pending(s) /\ r \in alone => r = s
    /\ \A r, s \in Requests :
           Answered200(r) /\ r \in alone /\ Pending(s) => req[r].since <= req[s].since
    /\ \A r \in Requests :
           req[r].pc = "installed" /\ r \in alone => notifiers = req[r].got

LEMMA LonePost ==
    ASSUME ReloadAssumption, TypeOK, BuiltInv, LoneInv, LoneReloadIsInUse,
           NEW r \in Requests, Post(r)
    PROVE  LoneInv' /\ LoneReloadIsInUse'
<1>1. ASSUME NEW s \in Requests, NEW t \in Requests, Pending(s)', Pending(t)', s \in alone'
      PROVE  s = t
  <2>1. CASE s = r
    BY <1>1, <2>1, PostStep DEF Pending
  <2>2. CASE s # r
    BY <1>1, <2>2, PostStep DEF Pending
  <2> QED
    BY <2>1, <2>2
<1>2. ASSUME NEW s \in Requests, NEW t \in Requests, Answered200(s)', s \in alone', Pending(t)'
      PROVE  req'[s].since <= req'[t].since
  <2>0. s # r
    BY <1>2, PostStep DEF Answered200
  <2>1. Answered200(s) /\ s \in alone /\ req'[s].since = req[s].since
    BY <1>2, <2>0, PostStep DEF Answered200
  <2>2. CASE t = r
    BY <2>1, <2>2, PostStep DEF BuiltInv
  <2>3. CASE t # r
    <3>1. Pending(t) /\ req'[t].since = req[t].since
      BY <1>2, <2>3, PostStep DEF Pending
    <3> QED
      BY <2>1, <3>1 DEF LoneInv
  <2> QED
    BY <2>2, <2>3
<1>3. ASSUME NEW s \in Requests, req'[s].pc = "installed", s \in alone'
      PROVE  notifiers' = req'[s].got
  BY <1>3, PostStep DEF Pending
<1>4. ASSUME NEW s \in Requests, Answered200(s)', s \in alone'
      PROVE  notifiers' >= req'[s].since
  <2>1. s # r
    BY <1>4, PostStep DEF Answered200
  <2>2. Answered200(s) /\ s \in alone /\ req'[s].since = req[s].since
    BY <1>4, <2>1, PostStep DEF Answered200
  <2>3. notifiers' = notifiers
    BY PostStep
  <2> QED
    BY <2>2, <2>3 DEF LoneReloadIsInUse, Answered200
<1> QED
  BY <1>1, <1>2, <1>3, <1>4 DEF LoneInv, LoneReloadIsInUse, Answered200

LEMMA LoneHandle ==
    ASSUME ReloadAssumption, TypeOK, BuiltInv, LoneInv, LoneReloadIsInUse,
           NEW r \in Requests, WrongMethod(r) \/ Handle(r)
    PROVE  LoneInv' /\ LoneReloadIsInUse'
<1>0. /\ notifiers \in Nat /\ file \in Nat
      /\ \A s \in Requests : req[s].since \in Nat /\ req[s].got \in Nat
  BY DEF TypeOK, ReloadAssumption, Handlers
<1>1. \A s \in Requests : s # r => req'[s] = req[s]
  BY RequestSteps
<1>2. Pending(r)' => Pending(r) /\ req'[r].since = req[r].since
  BY RequestSteps DEF Pending
<1>3. Answered200(r)' => Pending(r) /\ req[r].pc = "installed" /\ req'[r].since = req[r].since
                            /\ notifiers' = notifiers
  BY RequestSteps DEF Pending, Answered200
<1>4. notifiers' # notifiers => req[r].pc = "built" /\ notifiers' = req[r].got
  BY RequestSteps
<1>5. alone' = alone
  BY RequestSteps
<1>6. ASSUME NEW s \in Requests, NEW t \in Requests, Pending(s)', Pending(t)', s \in alone'
      PROVE  s = t
  BY <1>1, <1>2, <1>5, <1>6 DEF LoneInv, Pending
<1>7. ASSUME NEW s \in Requests, NEW t \in Requests, Answered200(s)', s \in alone', Pending(t)'
      PROVE  req'[s].since <= req'[t].since
  <2>1. CASE s = r
    <3>1. Pending(r) /\ r \in alone /\ t # r
      BY <1>3, <1>5, <1>7, <2>1 DEF Pending, Answered200
    <3> QED
      BY <1>1, <1>7, <3>1 DEF LoneInv, Pending
  <2>2. CASE s # r
    <3>1. Answered200(s) /\ s \in alone /\ req'[s].since = req[s].since
      BY <1>1, <1>5, <1>7, <2>2 DEF Answered200
    <3>2. Pending(t) /\ req'[t].since = req[t].since
      BY <1>1, <1>2, <1>7 DEF Pending
    <3> QED
      BY <3>1, <3>2 DEF LoneInv
  <2> QED
    BY <2>1, <2>2
<1>8. ASSUME NEW s \in Requests, req'[s].pc = "installed", s \in alone'
      PROVE  notifiers' = req'[s].got
  <2>1. CASE s = r
    BY <1>8, <2>1, RequestSteps
  <2>2. CASE s # r
    <3>1. req[s].pc = "installed" /\ s \in alone /\ req'[s].got = req[s].got
      BY <1>1, <1>5, <1>8, <2>2
    <3>2. ~Pending(r)
      BY <2>2, <3>1 DEF LoneInv, Pending
    <3> QED
      BY <1>4, <3>1, <3>2 DEF LoneInv, Pending
  <2> QED
    BY <2>1, <2>2
<1>9. ASSUME NEW s \in Requests, Answered200(s)', s \in alone'
      PROVE  notifiers' >= req'[s].since
  <2>1. CASE s = r
    <3>1. req[r].pc = "installed" /\ r \in alone
      BY <1>3, <1>5, <1>9, <2>1
    <3>2. notifiers = req[r].got /\ req[r].since <= req[r].got
      BY <3>1 DEF LoneInv, BuiltInv
    <3> QED
      BY <1>0, <1>3, <1>9, <2>1, <3>2
  <2>2. CASE s # r
    <3>1. Answered200(s) /\ s \in alone /\ req'[s].since = req[s].since
      BY <1>1, <1>5, <1>9, <2>2 DEF Answered200
    <3>2. CASE notifiers' = notifiers
      BY <3>1, <3>2 DEF LoneReloadIsInUse, Answered200
    <3>3. CASE notifiers' # notifiers
      <4>1. Pending(r) /\ notifiers' = req[r].got /\ req[r].since <= req[r].got
        BY <1>4, <3>3 DEF BuiltInv, Pending
      <4>2. req[s].since <= req[r].since
        BY <3>1, <4>1 DEF LoneInv
      <4> QED
        BY <1>0, <3>1, <4>1, <4>2
    <3> QED
      BY <3>2, <3>3
  <2> QED
    BY <2>1, <2>2
<1> QED
  BY <1>6, <1>7, <1>8, <1>9 DEF LoneInv, LoneReloadIsInUse, Answered200

LEMMA LoneStep ==
    ASSUME ReloadAssumption, TypeOK, BuiltInv, LoneInv, LoneReloadIsInUse, [Next]_vars
    PROVE  LoneInv' /\ LoneReloadIsInUse'
<1>1. CASE (\E k \in Kinds : Edit(k)) \/ DispatchBegins \/ DispatchEnds \/ UNCHANGED vars
  BY <1>1 DEF Edit, DispatchBegins, DispatchEnds, vars, LoneInv, LoneReloadIsInUse, Pending,
              Answered200
<1> QED
  BY <1>1, LonePost, LoneHandle DEF Next

(* A reload that no other overlapped is in use from its answer on.         *)
THEOREM LoneIsInUse == Spec => []LoneReloadIsInUse
<1>1. Init => LoneInv /\ LoneReloadIsInUse
  BY DEF Init, LoneInv, LoneReloadIsInUse, Pending, Answered200
<1>2. TypeOK /\ BuiltInv /\ (LoneInv /\ LoneReloadIsInUse) /\ [Next]_vars
        => (LoneInv /\ LoneReloadIsInUse)'
  BY LoneStep, ReloadAssumption
<1> QED
  BY <1>1, <1>2, BuiltHolds, PTL DEF Spec

(***************************************************************************)
(* Commands.                                                               *)
(***************************************************************************)

(* Steps of the command leave the service alone.                           *)
LEMMA StepOfReload ==
    ASSUME [CommandsNext]_allVars
    PROVE  [Next]_vars
<1> USE DEF vars
<1>1. ASSUME NEW f \in Files, EditFile(f) PROVE Next
  <2>1. KindOf(f) \in Kinds
    BY Zenon DEF KindOf, Kinds
  <2> QED
    BY <1>1, <2>1 DEF EditFile, Next
<1>2. CASE Reloading
  BY <1>2 DEF Reloading, Next
<1>3. CASE Dispatching
  BY <1>3 DEF Dispatching, Next
<1>4. CASE Command
  BY <1>4, Zenon DEF Command, Enter, Validate, TestLoads, TestGet, TestPost, LookUp, Finish,
                     Report, Goes
<1>5. CASE UNCHANGED allVars
  BY <1>5 DEF allVars
<1> QED
  BY <1>1, <1>2, <1>3, <1>4, <1>5 DEF CommandsNext

(* The commands and the contents of the files are a refinement of Reload:  *)
(* what a command does is none of the service's business.                  *)
THEOREM CommandsImplementReload == CommandsSpec => Spec
<1>1. CommandsInit => Init
  BY DEF CommandsInit
<1>2. [CommandsNext]_allVars => [Next]_vars
  BY StepOfReload
<1> QED
  BY <1>1, <1>2, PTL DEF CommandsSpec, Spec

(* Hence only completely built sets are used ...                           *)
THEOREM StillOnlyBuiltSets == CommandsSpec => []OnlyBuiltSetsAreUsed
BY CommandsImplementReload, OnlyBuiltSets, PTL

(* ... and a reload that no other overlaps is in use.                      *)
THEOREM StillLoneIsInUse == CommandsSpec => []LoneReloadIsInUse
BY CommandsImplementReload, LoneIsInUse, PTL

LEMMA ReloadTyped == CommandsSpec => []TypeOK
BY CommandsImplementReload, TypeCorrect, PTL

----------------------------------------------------------------------------
(* Intervals.                                                              *)

LEMMA DurationIsANumber == Second \in Nat \ {0} /\ Parts \in Nat \ {0} /\ Floats \subseteq Int
BY ConfigAssumption

(* Rounding does not jump over a float.                                    *)
LEMMA NearestKeepsOrder ==
    ASSUME NEW v \in Int, NEW a \in Floats, NEW f \in Nearest(v)
    PROVE  f \in Int /\ (a <= v => a <= f) /\ (v <= a => f <= a)
<1>1. f \in Int /\ a \in Int /\ Distance(f, v) <= Distance(a, v)
  BY DurationIsANumber DEF Nearest
<1> QED
  BY <1>1 DEF Distance

LEMMA ProductsKeepOrder ==
    ASSUME NEW v \in Int, NEW p \in Products(v)
    PROVE  /\ p \in Int
           /\ \A a \in Floats : a * Second \in Floats =>
                /\ a <= v => a * Second <= p
                /\ v <= a => p <= a * Second
<1>1. PICK n \in Nearest(v) : p \in Nearest(n * Second)
  BY DEF Products
<1>2. n \in Int /\ n \in Floats
  BY <1>1, DurationIsANumber DEF Nearest
<1>3. n * Second \in Int
  BY <1>2, DurationIsANumber
<1>4. p \in Int
  BY <1>1, DurationIsANumber DEF Nearest
<1>5. ASSUME NEW a \in Floats, a * Second \in Floats
      PROVE  (a <= v => a * Second <= p) /\ (v <= a => p <= a * Second)
  <2>1. a \in Int
    BY DurationIsANumber
  <2>2. (a <= v => a <= n) /\ (v <= a => n <= a)
    BY <1>1, NearestKeepsOrder
  <2>3. (a <= n => a * Second <= n * Second) /\ (n <= a => n * Second <= a * Second)
    BY <1>2, <2>1, DurationIsANumber
  <2>4. /\ a * Second <= n * Second => a * Second <= p
        /\ n * Second <= a * Second => p <= a * Second
    BY <1>1, <1>3, <1>5, NearestKeepsOrder
  <2> QED
    BY <2>2, <2>3, <2>4
<1> QED
  BY <1>4, <1>5

LEMMA QuotientKeepsOrder ==
    ASSUME NEW p \in Nat, NEW q \in Nat, p <= q
    PROVE  p \div Parts \in Nat /\ p \div Parts <= q \div Parts
<1> USE DurationIsANumber
<1>1. /\ p \div Parts \in Nat /\ q \div Parts \in Nat
      /\ Parts * (p \div Parts) <= p
      /\ q < Parts * (q \div Parts + 1)
  OBVIOUS
<1>2. Parts * (p \div Parts) < Parts * (q \div Parts + 1)
  BY <1>1
<1>3. p \div Parts < q \div Parts + 1
  BY <1>1, <1>2
<1> QED
  BY <1>1, <1>3

LEMMA TruncatedKeepsOrder ==
    ASSUME NEW p \in Int, NEW q \in Int, p <= q
    PROVE  Truncated(p) \in Int /\ Truncated(q) \in Int /\ Truncated(p) <= Truncated(q)
<1>1. CASE p >= 0
  BY <1>1, QuotientKeepsOrder DEF Truncated
<1>2. CASE p < 0 /\ q >= 0
  <2>1. (-p) \div Parts \in Nat /\ q \div Parts \in Nat
    BY <1>2, QuotientKeepsOrder
  <2> QED
    BY <1>2, <2>1 DEF Truncated
<1>3. CASE q < 0
  <2>1. /\ (-q) \div Parts \in Nat /\ (-p) \div Parts \in Nat
        /\ (-q) \div Parts <= (-p) \div Parts
    BY <1>3, QuotientKeepsOrder
  <2> QED
    BY <1>3, <2>1 DEF Truncated
<1> QED
  BY <1>1, <1>2, <1>3

(* What becomes of a number that has exact ones on both sides.             *)
LEMMA NumberFacts ==
    ASSUME NEW v \in Int, NEW x \in OfSeconds(v)
    PROVE  /\ x \in Representable
           /\ \A a, b \in ExactSeconds :
                a <= v /\ v <= b => x \in Truncated(a * Second) .. Truncated(b * Second)
<1>1. PICK p \in Products(v) : x \in ToDuration(p)
  BY DEF OfSeconds
<1>2. p \in Int
  BY <1>1, ProductsKeepOrder
<1>3. x \in Representable
  BY <1>1, ConfigAssumption DEF ToDuration
<1>4. ASSUME NEW a \in ExactSeconds, NEW b \in ExactSeconds, a <= v, v <= b
      PROVE  x \in Truncated(a * Second) .. Truncated(b * Second)
  <2>1. /\ a \in Floats /\ a * Second \in Floats /\ Truncated(a * Second) \in 1 .. MaxDuration
        /\ b \in Floats /\ b * Second \in Floats /\ Truncated(b * Second) \in 1 .. MaxDuration
    BY DEF ExactSeconds
  <2>2. a * Second <= p /\ p <= b * Second
    BY <1>1, <1>4, <2>1, ProductsKeepOrder
  <2>3. a * Second \in Int /\ b * Second \in Int
    BY <2>1, DurationIsANumber
  <2>4. /\ Truncated(p) \in Int
        /\ Truncated(a * Second) <= Truncated(p) /\ Truncated(p) <= Truncated(b * Second)
    BY <1>2, <2>2, <2>3, TruncatedKeepsOrder
  <2>5. Truncated(p) \in Representable
    BY <2>1, <2>4, ConfigAssumption DEF Representable
  <2>6. x = Truncated(p)
    BY <1>1, <2>5 DEF ToDuration
  <2> QED
    BY <2>1, <2>4, <2>6, ConfigAssumption
<1> QED
  BY <1>3, <1>4

LEMMA DecodedIsSafe == ASSUME NEW w \in Written, Decodes(w) PROVE IsSafe(w)
<1> SUFFICES ASSUME NEW default \in {DefaultLocalInterval, DefaultPublicInterval},
                    NEW d \in Intervals(w, default)
             PROVE  /\ d \in 1 .. MaxDuration
                    /\ w.form = "string" /\ w.value > 0 => d = w.value
                    /\ w.form = "number" =>
                          \A a, b \in ExactSeconds :
                              a <= w.value /\ w.value <= b =>
                                  d \in Truncated(a * Second) .. Truncated(b * Second)
  BY DEF IsSafe
<1>1. default \in 1 .. MaxDuration
  BY ConfigAssumption DEF DefaultLocalInterval, DefaultPublicInterval
<1>2. PICK x \in Durations(w) : d = IF x <= 0 THEN default ELSE x
  BY DEF Intervals
<1>3. w.value \in Int /\ MaxDuration \in Nat
  BY ConfigAssumption DEF Written
<1>4. CASE w.form = "absent"
  <2>1. x = 0
    BY <1>2, <1>4 DEF Durations
  <2> QED
    BY <1>1, <1>2, <1>4, <2>1
<1>5. CASE w.form = "string"
  <2>1. x = w.value /\ x \in Representable
    BY <1>2, <1>5 DEF Durations, Decodes
  <2> QED
    BY <1>1, <1>2, <1>3, <1>5, <2>1 DEF Representable
<1>6. CASE w.form = "nan"
  <2>1. x \in Representable
    BY <1>2, <1>6, ConfigAssumption DEF Durations
  <2> QED
    BY <1>1, <1>2, <1>3, <1>6, <2>1 DEF Representable
<1>7. CASE w.form = "number"
  <2>1. x \in OfSeconds(w.value)
    BY <1>2, <1>7 DEF Durations
  <2>2. x \in Representable
    BY <1>3, <2>1, NumberFacts
  <2>3. d \in 1 .. MaxDuration
    BY <1>1, <1>2, <1>3, <2>2 DEF Representable
  <2>4. ASSUME NEW a \in ExactSeconds, NEW b \in ExactSeconds, a <= w.value, w.value <= b
        PROVE  d \in Truncated(a * Second) .. Truncated(b * Second)
    <3>1. x \in Truncated(a * Second) .. Truncated(b * Second)
      BY <1>3, <2>1, <2>4, NumberFacts
    <3>2. Truncated(a * Second) \in 1 .. MaxDuration
      BY DEF ExactSeconds
    <3>3. ~(x <= 0)
      BY <1>3, <3>1, <3>2, <2>2 DEF Representable
    <3> QED
      BY <1>2, <3>1, <3>3
  <2> QED
    BY <1>7, <2>3, <2>4
<1> QED
  BY <1>4, <1>5, <1>6, <1>7 DEF Written, Decodes

ContentTyped == content \in [Versions -> Files]

LEMMA ContentHolds == CommandsSpec => []ContentTyped
<1>1. CommandsInit => ContentTyped
  BY DEF CommandsInit, ContentTyped
<1>2. ASSUME ContentTyped, [CommandsNext]_allVars PROVE ContentTyped'
  <2> USE DEF ContentTyped
  <2>1. ASSUME NEW f \in Files, EditFile(f) PROVE ContentTyped'
    BY <1>2, <2>1 DEF EditFile
  <2>2. CASE Command
    BY <1>2, <2>2 DEF Command, Enter, Validate, TestLoads, TestGet, TestPost, LookUp, Finish,
                      Report, Goes
  <2> QED
    BY <1>2, <2>1, <2>2 DEF CommandsNext, Reloading, Dispatching, allVars
<1> QED
  BY <1>1, <1>2, PTL DEF CommandsSpec

----------------------------------------------------------------------------
(* What the steps of the command make of its record.                       *)

Shape == cmd = [name |-> cmd.name, pc |-> cmd.pc, from |-> cmd.from, pending |-> cmd.pending,
                took |-> cmd.took, results |-> cmd.results, code |-> cmd.code,
                after |-> cmd.after]

Answered == {r \in Requests : req[r].pc = "answered" /\ req[r].code = 200}

(* Before the goroutines start: the command's name, and what it loads.     *)
Prepares ==
    /\ cmd.pc \in {"none", "entered"} /\ cmd'.pc \in {"entered", "looking", "over"}
    /\ UNCHANGED <<cmd.results, cmd.took, cmd.pending>>
    /\ \/ /\ cmd.pc = "none" /\ cmd'.pc = "entered"
          /\ cmd'.name \in Commands /\ cmd'.after = Answered
          /\ UNCHANGED <<cmd.from, cmd.code>>
       \/ /\ cmd.pc = "entered" /\ UNCHANGED <<cmd.after, cmd.name>>
          /\ \/ /\ cmd.name = "validate" /\ cmd'.pc = "over" /\ cmd'.from = file
                /\ cmd'.code = IF Loads(content[file]) THEN 0 ELSE 1
             \/ /\ cmd.name = "test" /\ cmd'.pc = "looking" /\ cmd'.from = file
                /\ kind[file] = "good" /\ cmd'.code = cmd.code
             \/ /\ cmd.name = "test" /\ cmd'.pc = "over" /\ cmd'.from = file
                /\ kind[file] # "good" /\ cmd'.code = 1
             \/ /\ cmd.name = "/test" /\ cmd'.pc = "over" /\ cmd'.code = 405
                /\ cmd'.from = cmd.from
             \/ /\ cmd.name = "/test" /\ cmd'.pc = "looking"
                /\ UNCHANGED <<cmd.from, cmd.code>>

LooksUp ==
    /\ cmd.pc = "looking" /\ cmd'.pc = "sending"
    /\ UNCHANGED <<cmd.name, cmd.after, cmd.took, cmd.code>>
    /\ cmd'.from = IF cmd.name = "/test" THEN notifiers ELSE cmd.from
    /\ cmd'.pending = DOMAIN content[cmd'.from].notifiers
    /\ cmd'.results = [i \in DOMAIN content[cmd'.from].notifiers |-> "nothing"]

Finishes(i, ok) ==
    /\ cmd.pc = "sending" /\ i \in cmd.pending
    /\ UNCHANGED <<cmd.name, cmd.pc, cmd.from, cmd.after, cmd.code>>
    /\ cmd'.pending = cmd.pending \ {i}
    /\ cmd'.took = IF ok THEN cmd.took \cup {i} ELSE cmd.took
    /\ cmd'.results = [cmd.results EXCEPT ![i] = Result(i, ok)]

Reports ==
    /\ cmd.pc = "sending" /\ cmd.pending = {} /\ cmd'.pc = "over"
    /\ UNCHANGED <<cmd.name, cmd.from, cmd.after, cmd.took, cmd.pending, cmd.results>>
    /\ cmd'.code = IF cmd.name = "/test" THEN 200
                   ELSE IF \E i \in DOMAIN cmd.results : ~cmd.results[i].success
                        THEN 1 ELSE 0

LEMMA CommandSteps ==
    ASSUME Shape, Command
    PROVE  /\ UNCHANGED <<vars, content>> /\ Shape'
           /\ \/ Prepares
              \/ LooksUp
              \/ \E i \in cmd.pending, ok \in BOOLEAN : Finishes(i, ok)
              \/ Reports
<1> USE DEF Shape, Goes
<1>1. ASSUME NEW name \in Commands, Enter(name) PROVE Prepares /\ Shape' /\ UNCHANGED <<vars, content>>
  BY <1>1 DEF Enter, Prepares, Answered
<1>2. CASE Validate
  BY <1>2 DEF Validate, Prepares
<1>3. CASE TestLoads
  BY <1>3 DEF TestLoads, Prepares
<1>4. CASE TestGet
  BY <1>4 DEF TestGet, Prepares
<1>8. CASE TestPost
  BY <1>8 DEF TestPost, Prepares
<1>5. CASE LookUp
  <2> DEFINE copied == IF cmd.name = "/test" THEN [cmd EXCEPT !.from = notifiers] ELSE cmd
  <2>1. cmd' = [copied EXCEPT !.pc = "sending", !.pending = DOMAIN Used(copied),
                              !.results = [i \in DOMAIN Used(copied) |-> "nothing"]]
    BY <1>5 DEF LookUp
  <2>2. copied = [name |-> cmd.name, pc |-> cmd.pc,
                  from |-> IF cmd.name = "/test" THEN notifiers ELSE cmd.from,
                  pending |-> cmd.pending, took |-> cmd.took, results |-> cmd.results,
                  code |-> cmd.code, after |-> cmd.after]
    BY Zenon
  <2>3. copied.from = IF cmd.name = "/test" THEN notifiers ELSE cmd.from
    BY <2>2
  <2>4. cmd' = [name |-> cmd.name, pc |-> "sending", from |-> copied.from,
                pending |-> DOMAIN Used(copied), took |-> cmd.took,
                results |-> [i \in DOMAIN Used(copied) |-> "nothing"],
                code |-> cmd.code, after |-> cmd.after]
    <3> HIDE DEF copied
    <3> QED
      BY <2>1, <2>2, Zenon
  <2>5. cmd'.from = copied.from /\ UNCHANGED <<vars, content>>
    BY <1>5, <2>4 DEF LookUp
  <2>6. Used(copied) = content[cmd'.from].notifiers
    BY <2>5, Zenon DEF Used
  <2> HIDE DEF copied
  <2>7. Shape'
    BY <2>4, Zenon
  <2>8. LooksUp
    <3>1. cmd.pc = "looking"
      BY <1>5, Zenon DEF LookUp
    <3>2. /\ cmd'.pc = "sending" /\ UNCHANGED <<cmd.name, cmd.after, cmd.took, cmd.code>>
          /\ cmd'.pending = DOMAIN Used(copied)
          /\ cmd'.results = [i \in DOMAIN Used(copied) |-> "nothing"]
      BY <2>4
    <3> QED
      BY <2>3, <2>5, <2>6, <3>1, <3>2, Zenon DEF LooksUp
  <2> QED
    BY <2>5, <2>7, <2>8
<1>6. ASSUME NEW i \in cmd.pending, NEW ok \in BOOLEAN, Finish(i, ok)
      PROVE  Finishes(i, ok) /\ Shape' /\ UNCHANGED <<vars, content>>
  BY <1>6 DEF Finish, Finishes
<1>7. CASE Report
  BY <1>7 DEF Report, Reports
<1> QED
  BY <1>1, <1>2, <1>3, <1>4, <1>5, <1>6, <1>7, <1>8 DEF Command

LEMMA ShapeHolds == CommandsSpec => []Shape
<1>1. CommandsInit => Shape
  BY DEF CommandsInit, NoCommand, Shape
<1>2. ASSUME Shape, [CommandsNext]_allVars PROVE Shape'
  <2>1. CASE Command
    BY <1>2, <2>1, CommandSteps
  <2> QED
    BY <1>2, <2>1 DEF CommandsNext, EditFile, Reloading, Dispatching, allVars, Shape
<1> QED
  BY <1>1, <1>2, PTL DEF CommandsSpec

(* Nobody takes an answer back, and who has been answered cannot become    *)
(* alone.                                                                  *)
LEMMA AnswersStay ==
    ASSUME TypeOK, [Next]_vars, NEW r \in Answered
    PROVE  /\ r \in Answered' /\ req'[r] = req[r]
           /\ r \in alone' => r \in alone
<1> USE DEF TypeOK, Answered
<1>1. ASSUME NEW s \in Requests, WrongMethod(s) \/ Handle(s)
      PROVE  s # r /\ req'[r] = req[r] /\ UNCHANGED alone
  BY <1>1 DEF WrongMethod, Handle, Load, LoadFails, Install, Answer
<1>2. ASSUME NEW s \in Requests, Post(s)
      PROVE  s # r /\ req'[r] = req[r] /\ (r \in alone' => r \in alone)
  BY <1>2 DEF Post
<1>3. ASSUME NEW k \in Kinds, Edit(k) PROVE UNCHANGED <<req, alone>>
  BY <1>3 DEF Edit
<1> QED
  BY <1>1, <1>2, <1>3 DEF Next, vars, DispatchBegins, DispatchEnds

----------------------------------------------------------------------------
(* A test tries what was reloaded.                                         *)

FollowInv ==
    /\ cmd.pc # "none" => cmd.after \subseteq Answered
    /\ cmd.pc \in {"none", "entered", "looking"} => cmd.results = <<>>
    /\ TestFollowsReload

LEMMA FollowCommand ==
    ASSUME Shape, FollowInv, LoneReloadIsInUse, Command
    PROVE  FollowInv'
<1> USE DEF FollowInv
<1>1. UNCHANGED <<vars, content>>
  BY CommandSteps
<1>2. Answered' = Answered /\ alone' = alone /\ req' = req
  BY <1>1 DEF Answered, vars
<1>3. CASE Prepares
  BY <1>2, <1>3 DEF Prepares, TestFollowsReload
<1>4. CASE LooksUp
  BY <1>2, <1>4 DEF LooksUp, TestFollowsReload, LoneReloadIsInUse, LoneReloadIsInUse, Answered
<1>5. ASSUME NEW i \in cmd.pending, NEW ok \in BOOLEAN, Finishes(i, ok) PROVE FollowInv'
  <2>1. cmd.results = <<>> => cmd'.results = <<>>
    BY <1>5 DEF Finishes
  <2> QED
    BY <1>2, <1>5, <2>1 DEF Finishes, TestFollowsReload
<1>6. CASE Reports
  BY <1>2, <1>6 DEF Reports, TestFollowsReload
<1> QED
  BY <1>3, <1>4, <1>5, <1>6, CommandSteps

LEMMA FollowStep ==
    ASSUME Shape, FollowInv, LoneReloadIsInUse, TypeOK, [CommandsNext]_allVars
    PROVE  FollowInv'
<1>1. CASE Command
  BY <1>1, FollowCommand
<1>2. CASE UNCHANGED cmd
  <2>1. [Next]_vars
    BY StepOfReload
  <2>2. cmd.pc # "none" => cmd.after \subseteq Answered'
    BY <2>1, AnswersStay DEF FollowInv
  <2>3. cmd.pc # "none" => \A r \in cmd.after \cap alone' : r \in alone /\ req'[r] = req[r]
    BY <2>1, AnswersStay DEF FollowInv
  <2>4. cmd.results # <<>> => cmd.pc # "none"
    BY DEF FollowInv
  <2> QED
    BY <1>2, <2>2, <2>3, <2>4 DEF FollowInv, TestFollowsReload
<1> QED
  BY <1>1, <1>2 DEF CommandsNext, EditFile, Reloading, Dispatching, allVars

(* With any number of reloads, before, during and after the test.          *)
THEOREM TestsFollow == CommandsSpec => []TestFollowsReload
<1>1. CommandsInit => FollowInv
  BY DEF CommandsInit, NoCommand, FollowInv, TestFollowsReload
<1>2. Shape /\ FollowInv /\ LoneReloadIsInUse /\ TypeOK /\ [CommandsNext]_allVars => FollowInv'
  BY FollowStep
<1>3. FollowInv => TestFollowsReload
  BY DEF FollowInv
<1> QED
  BY <1>1, <1>2, <1>3, ShapeHolds, StillLoneIsInUse, ReloadTyped, PTL DEF CommandsSpec

----------------------------------------------------------------------------
(* The results of a test.                                                  *)

LEMMA NotNewerThanFile == CommandsSpec => [](notifiers \in Versions /\ notifiers <= file)
<1>1. TypeOK /\ BuiltInv => notifiers \in Versions /\ notifiers <= file
  BY DEF TypeOK, BuiltInv, Versions
<1> QED
  BY <1>1, CommandsImplementReload, BuiltHolds, PTL

(* What is written so far, and that nobody can rewrite what it is about.   *)
ResultsInv ==
    /\ cmd.from \in 0 .. file
    /\ cmd.pc \in {"none", "entered", "looking", "sending", "over"}
    /\ cmd.pc \in {"none", "entered", "looking"} =>
          cmd.results = <<>> /\ cmd.took = {}
    /\ cmd.pc = "sending" =>
          /\ cmd.pending \subseteq DOMAIN Used(cmd)
          /\ cmd.took \subseteq DOMAIN Used(cmd) \ cmd.pending
          /\ cmd.results = [i \in DOMAIN Used(cmd) |-> cmd.results[i]]
          /\ \A i \in DOMAIN Used(cmd) \ cmd.pending :
                /\ i \in cmd.took => cmd.results[i] = Result(i, TRUE)
                /\ i \notin cmd.took => cmd.results[i] = Result(i, FALSE)
    /\ ResultsAreTheOutcomes

LEMMA FinishKeepsResults ==
    ASSUME ResultsInv, UNCHANGED <<file, content>>,
           NEW i \in cmd.pending, NEW ok \in BOOLEAN, Finishes(i, ok)
    PROVE  ResultsInv'
<1> USE DEF ResultsInv, Finishes
<1>1. Used(cmd)' = Used(cmd) /\ \A j, b : Result(j, b)' = Result(j, b)
  BY DEF Used, Result
<1>2. /\ cmd.pending \subseteq DOMAIN Used(cmd)
      /\ cmd.took \subseteq DOMAIN Used(cmd) \ cmd.pending
      /\ cmd.results = [j \in DOMAIN Used(cmd) |-> cmd.results[j]]
  BY DEF Finishes
<1>3. /\ cmd'.results = [j \in DOMAIN Used(cmd) |-> cmd'.results[j]]
      /\ cmd'.results[i] = Result(i, ok)
      /\ \A j \in DOMAIN Used(cmd) : j # i => cmd'.results[j] = cmd.results[j]
  BY <1>2
<1>4. ASSUME NEW j \in DOMAIN Used(cmd) \ cmd'.pending
      PROVE  /\ j \in cmd'.took => cmd'.results[j] = Result(j, TRUE)
             /\ j \notin cmd'.took => cmd'.results[j] = Result(j, FALSE)
  <2>1. CASE j # i
    <3>1. j \in DOMAIN Used(cmd) \ cmd.pending
      BY <2>1
    <3>2. /\ j \in cmd.took => cmd.results[j] = Result(j, TRUE)
          /\ j \notin cmd.took => cmd.results[j] = Result(j, FALSE)
      BY <3>1 DEF ResultsInv
    <3>3. (j \in cmd'.took <=> j \in cmd.took) /\ cmd'.results[j] = cmd.results[j]
      BY <1>3, <2>1, <3>1
    <3> HIDE DEF ResultsInv, Finishes
    <3> QED
      BY <3>2, <3>3
  <2>2. CASE j = i /\ ok = TRUE
    BY <1>3, <2>2
  <2>3. CASE j = i /\ ok = FALSE
    <3>1. i \notin cmd'.took
      BY <1>2, <2>3
    <3> QED
      BY <1>3, <2>3, <3>1
  <2> QED
    BY <2>1, <2>2, <2>3
<1>5. cmd'.pending \subseteq DOMAIN Used(cmd) /\ cmd'.took \subseteq DOMAIN Used(cmd) \ cmd'.pending
  <2>1. CASE ok = TRUE
    BY <1>2, <2>1
  <2>2. CASE ok = FALSE
    BY <1>2, <2>2
  <2> QED
    BY <2>1, <2>2
<1>6. cmd'.pc = "sending" /\ cmd'.from \in 0 .. file'
  OBVIOUS
<1>7. ResultsAreTheOutcomes'
  BY <1>6 DEF ResultsAreTheOutcomes
<1> HIDE DEF Finishes
<1> QED
  BY <1>1, <1>3, <1>4, <1>5, <1>6, <1>7

LEMMA ReportsTheOutcomes ==
    ASSUME ResultsInv, UNCHANGED <<file, content>>, Reports
    PROVE  ResultsInv'
<1> USE DEF ResultsInv, Reports
<1>1. Used(cmd)' = Used(cmd) /\ \A j, b : Result(j, b)' = Result(j, b)
  BY DEF Used, Result
<1>2. ASSUME NEW i \in DOMAIN Used(cmd)
      PROVE  /\ cmd.results[i] = Result(i, i \in cmd.took)
             /\ cmd.results[i].success <=> i \in cmd.took
  <2>1. CASE i \in cmd.took
    <3>1. cmd.results[i] = Result(i, TRUE)
      BY <2>1
    <3>2. (i \in cmd.took) = TRUE
      BY <2>1
    <3>3. Result(i, TRUE) = Result(i, i \in cmd.took)
      BY <3>2, Zenon
    <3>4. Result(i, TRUE).success = TRUE
      BY Zenon DEF Result
    <3> QED
      BY <2>1, <3>1, <3>3, <3>4, Zenon
  <2>2. CASE i \notin cmd.took
    <3>1. cmd.results[i] = Result(i, FALSE)
      BY <2>2
    <3>2. (i \in cmd.took) = FALSE
      BY <2>2
    <3>3. Result(i, FALSE) = Result(i, i \in cmd.took)
      BY <3>2, Zenon
    <3>4. Result(i, FALSE).success = FALSE
      BY Zenon DEF Result
    <3> QED
      BY <2>2, <3>1, <3>3, <3>4, Zenon
  <2> QED
    BY <2>1, <2>2
<1>3. cmd.results = [i \in DOMAIN Used(cmd) |-> Result(i, i \in cmd.took)]
  BY <1>2, Zenon
<1>4. cmd.name = "test" => (cmd'.code = 0 <=> cmd.took = DOMAIN Used(cmd))
  <2>1. DOMAIN cmd.results = DOMAIN Used(cmd) /\ cmd.took \subseteq DOMAIN Used(cmd)
    OBVIOUS
  <2>2. (\E i \in DOMAIN cmd.results : ~cmd.results[i].success) <=> cmd.took # DOMAIN Used(cmd)
    BY <1>2, <2>1
  <2> QED
    BY <2>2
<1>5. ResultsAreTheOutcomes'
  BY <1>1, <1>3, <1>4, Zenon DEF ResultsAreTheOutcomes
<1> QED
  BY <1>5

(* An edit makes a new version, and leaves those alone that somebody uses. *)
LEMMA VersionsStay ==
    ASSUME TypeOK, ContentTyped, Shape, [CommandsNext]_allVars
    PROVE  /\ file' \in {file, file + 1}
           /\ \A v \in 0 .. file : content'[v] = content[v] /\ kind'[v] = kind[v]
           /\ file' = file + 1 => kind'[file'] = KindOf(content'[file'])
<1>0. file \in Nat
  BY ReloadAssumption DEF TypeOK, Versions
<1>1. ASSUME NEW f \in Files, EditFile(f)
      PROVE  /\ file' = file + 1 /\ kind'[file'] = KindOf(content'[file'])
             /\ \A v \in 0 .. file : content'[v] = content[v] /\ kind'[v] = kind[v]
  <2>1. /\ file' = file + 1 /\ content' = [content EXCEPT ![file + 1] = f]
        /\ kind' = [kind EXCEPT ![file + 1] = KindOf(f)] /\ file < MaxEdits
    BY <1>1 DEF EditFile, Edit
  <2>2. file + 1 \in Versions /\ \A v \in 0 .. file : v \in Versions /\ v # file + 1
    BY <1>0, <2>1, ReloadAssumption DEF TypeOK, Versions
  <2>3. content'[file'] = f /\ kind'[file'] = KindOf(f)
    BY <2>1, <2>2, Zenon DEF ContentTyped, TypeOK
  <2> QED
    BY <2>1, <2>2, <2>3 DEF ContentTyped, TypeOK
<1>2. ASSUME NEW r \in Requests, WrongMethod(r) \/ Post(r) \/ Handle(r)
      PROVE  UNCHANGED <<file, kind>>
  BY <1>2 DEF WrongMethod, Post, Handle, Load, LoadFails, Install, Answer
<1>3. CASE Reloading
  BY <1>0, <1>2, <1>3 DEF Reloading
<1>4. CASE Dispatching
  BY <1>0, <1>4 DEF Dispatching, DispatchBegins, DispatchEnds
<1>5. CASE Command
  BY <1>0, <1>5, CommandSteps DEF vars
<1>6. CASE UNCHANGED allVars
  BY <1>0, <1>6 DEF allVars, vars
<1> QED
  BY <1>1, <1>3, <1>4, <1>5, <1>6 DEF CommandsNext

LEMMA ResultsStep ==
    ASSUME Shape, TypeOK, ContentTyped, notifiers \in Versions /\ notifiers <= file,
           ResultsInv, [CommandsNext]_allVars
    PROVE  ResultsInv'
<1>0. file \in Nat
  BY ReloadAssumption DEF TypeOK, Versions
<1>1. CASE Command
  <2>1. UNCHANGED <<vars, content>>
    BY <1>1, CommandSteps
  <2>2. UNCHANGED <<file, content>>
    BY <2>1 DEF vars
  <2>3. CASE Prepares
    <3>1. cmd.results = <<>> /\ cmd.took = {}
      BY <2>3 DEF Prepares, ResultsInv
    <3>2. cmd'.results = <<>> /\ cmd'.took = {} /\ cmd'.pc \in {"entered", "looking", "over"}
      BY <2>3, <3>1 DEF Prepares
    <3>3. cmd'.from \in 0 .. file'
      BY <1>0, <2>2, <2>3 DEF Prepares, ResultsInv
    <3>4. ResultsAreTheOutcomes'
      BY <3>2 DEF ResultsAreTheOutcomes
    <3> QED
      BY <3>2, <3>3, <3>4 DEF ResultsInv
  <2>4. CASE LooksUp
    <3>1. cmd'.from \in 0 .. file' /\ cmd'.pc = "sending" /\ cmd'.took = {}
      BY <1>0, <2>2, <2>4 DEF LooksUp, ResultsInv, Versions
    <3>2. /\ cmd'.pending = DOMAIN Used(cmd)'
          /\ cmd'.results = [i \in DOMAIN Used(cmd)' |-> "nothing"]
      BY <2>2, <2>4 DEF LooksUp, Used
    <3>3. ResultsAreTheOutcomes'
      BY <3>1 DEF ResultsAreTheOutcomes
    <3> QED
      BY <3>1, <3>2, <3>3 DEF ResultsInv
  <2>5. ASSUME NEW i \in cmd.pending, NEW ok \in BOOLEAN, Finishes(i, ok) PROVE ResultsInv'
    BY <2>2, <2>5, FinishKeepsResults
  <2>6. CASE Reports
    BY <2>2, <2>6, ReportsTheOutcomes
  <2> QED
    BY <1>1, <2>3, <2>4, <2>5, <2>6, CommandSteps
<1>2. CASE UNCHANGED cmd
  <2>1. /\ file' \in {file, file + 1}
        /\ \A v \in 0 .. file : content'[v] = content[v]
    BY VersionsStay
  <2>2. content'[cmd.from] = content[cmd.from] /\ cmd.from \in 0 .. file'
    BY <1>0, <2>1 DEF ResultsInv
  <2>3. Used(cmd)' = Used(cmd) /\ \A j, b : Result(j, b)' = Result(j, b)
    BY <1>2, <2>2 DEF Used, Result
  <2>4. ResultsAreTheOutcomes'
    BY <1>2, <2>3, Zenon DEF ResultsInv, ResultsAreTheOutcomes
  <2> QED
    BY <1>2, <2>2, <2>3, <2>4 DEF ResultsInv
<1> QED
  BY <1>1, <1>2 DEF CommandsNext, EditFile, Reloading, Dispatching, allVars

LEMMA ResultsHold == CommandsSpec => []ResultsInv
<1>1. CommandsInit => ResultsInv
  BY ReloadAssumption DEF CommandsInit, Init, NoCommand, ResultsInv, ResultsAreTheOutcomes
<1>2. /\ Shape /\ TypeOK /\ ContentTyped /\ (notifiers \in Versions /\ notifiers <= file)
      /\ ResultsInv /\ [CommandsNext]_allVars
      => ResultsInv'
  BY ResultsStep
<1> QED
  BY <1>1, <1>2, ShapeHolds, ReloadTyped, ContentHolds, NotNewerThanFile, PTL DEF CommandsSpec

(* For any file and any number of notifiers.                               *)
THEOREM ResultsAreRight == CommandsSpec => []ResultsAreTheOutcomes
<1>1. ResultsInv => ResultsAreTheOutcomes
  BY DEF ResultsInv
<1> QED
  BY <1>1, ResultsHold, PTL

----------------------------------------------------------------------------
(* The command's own state.                                                *)

CommandInv ==
    /\ cmd.name \in Commands \cup {"none"}
    /\ cmd.code \in {-1, 0, 1, 200, 405}
    /\ cmd.after \subseteq Requests
    /\ cmd.pc \in {"none", "entered", "looking"} => cmd.pending = {}
    /\ cmd.pending \subseteq DOMAIN Used(cmd) /\ cmd.took \subseteq DOMAIN Used(cmd)

LEMMA CommandStep ==
    ASSUME Shape, TypeOK, ContentTyped, ResultsInv, CommandInv, [CommandsNext]_allVars
    PROVE  CommandInv'
<1> USE DEF CommandInv
<1>1. CASE Command
  <2>1. UNCHANGED <<file, content>>
    BY <1>1, CommandSteps DEF vars
  <2>2. CASE Prepares
    <3>1. /\ cmd'.pending = {} /\ cmd'.took = {}
          /\ cmd'.pc \in {"entered", "looking", "over"}
      BY <2>2 DEF Prepares, ResultsInv
    <3>2. cmd'.name \in Commands \cup {"none"} /\ cmd'.after \subseteq Requests
      BY <2>2 DEF Prepares, Answered
    <3>3. cmd'.code \in {-1, 0, 1, 200, 405}
      BY <2>2 DEF Prepares
    <3> QED
      BY <3>1, <3>2, <3>3
  <2>3. CASE LooksUp
    <3>1. /\ cmd'.pending = DOMAIN Used(cmd)' /\ cmd'.took = {} /\ cmd'.pc = "sending"
      BY <2>1, <2>3 DEF LooksUp, Used, ResultsInv
    <3> QED
      BY <2>3, <3>1 DEF LooksUp
  <2>4. ASSUME NEW i \in cmd.pending, NEW ok \in BOOLEAN, Finishes(i, ok) PROVE CommandInv'
    <3>1. Used(cmd)' = Used(cmd)
      BY <2>1, <2>4 DEF Finishes, Used
    <3>2. cmd'.pending \subseteq cmd.pending /\ cmd'.took \subseteq cmd.took \cup {i}
      BY <2>4 DEF Finishes
    <3>3. cmd'.pc = "sending" /\ UNCHANGED <<cmd.name, cmd.code, cmd.after>>
      BY <2>4 DEF Finishes
    <3> QED
      BY <3>1, <3>2, <3>3
  <2>5. CASE Reports
    <3>1. Used(cmd)' = Used(cmd) /\ cmd'.code \in {0, 1, 200}
      BY <2>1, <2>5 DEF Reports, Used
    <3> QED
      BY <2>5, <3>1 DEF Reports
  <2> QED
    BY <1>1, <2>2, <2>3, <2>4, <2>5, CommandSteps
<1>2. CASE UNCHANGED cmd
  <2>1. Used(cmd)' = Used(cmd)
    BY <1>2, VersionsStay DEF ResultsInv, Used
  <2> QED
    BY <1>2, <2>1
<1> QED
  BY <1>1, <1>2 DEF CommandsNext, EditFile, Reloading, Dispatching, allVars

(* Every variable keeps its type, the command's too.                       *)
THEOREM CommandsTypeCorrect == CommandsSpec => []CommandsTypeOK
<1>1. CommandsInit => CommandInv
  BY DEF CommandsInit, NoCommand, CommandInv
<1>2. Shape /\ TypeOK /\ ContentTyped /\ ResultsInv /\ CommandInv /\ [CommandsNext]_allVars
      => CommandInv'
  BY CommandStep
<1>3. TypeOK /\ ContentTyped /\ ResultsInv /\ CommandInv => CommandsTypeOK
  <2> SUFFICES ASSUME TypeOK, ContentTyped, ResultsInv, CommandInv PROVE CommandsTypeOK
    OBVIOUS
  <2>1. cmd.from \in Versions
    BY ReloadAssumption DEF TypeOK, ResultsInv, Versions
  <2> QED
    BY <2>1 DEF ResultsInv, CommandInv, ContentTyped, CommandsTypeOK
<1> QED
  BY <1>1, <1>2, <1>3, ShapeHolds, ReloadTyped, ContentHolds, ResultsHold, PTL DEF CommandsSpec

----------------------------------------------------------------------------
(* What a command foretells.                                               *)

(* The kind of a version is that of its content; an answer says what the   *)
(* kind was of the version that was read, and so does the command's code.  *)
KindsInv == \A v \in 0 .. file : kind[v] = KindOf(content[v])

AnswersInv ==
    \A r \in Requests :
        req[r].pc = "answered" /\ req[r].code \in {200, 500} =>
            /\ req[r].got \in 0 .. file
            /\ req[r].code = 200 <=> kind[req[r].got] = "good"

VerdictInv ==
    /\ cmd.pc # "over" => cmd.code = -1
    /\ cmd.pc = "none" => cmd.name = "none"
    /\ cmd.pc \in {"looking", "sending"} => cmd.name # "validate"
    /\ cmd.name = "validate" =>
          /\ cmd.code = 0 => Loads(content[cmd.from])
          /\ cmd.code = 1 => ~Loads(content[cmd.from])
    /\ cmd.name = "test" =>
          /\ cmd.pc \in {"looking", "sending"} \/ cmd.results # <<>> => kind[cmd.from] = "good"
          /\ cmd.pc = "sending" => cmd.results # <<>>
          /\ cmd.pc = "over" /\ cmd.results = <<>> => kind[cmd.from] # "good"

LEMMA KindsStep ==
    ASSUME Shape, TypeOK, ContentTyped, KindsInv, [CommandsNext]_allVars
    PROVE  KindsInv'
<1>1. file \in Nat
  BY ReloadAssumption DEF TypeOK, Versions
<1> QED
  BY <1>1, VersionsStay DEF KindsInv

LEMMA AnswersStep ==
    ASSUME Shape, TypeOK, ContentTyped, BuiltInv, AnswersInv, [CommandsNext]_allVars
    PROVE  AnswersInv'
<1>0. file \in Nat
  BY ReloadAssumption DEF TypeOK, Versions
<1>1. ASSUME NEW r \in Requests, req'[r].pc = "answered", req'[r].code \in {200, 500}
      PROVE  /\ req'[r].got \in 0 .. file
             /\ req'[r].code = 200 <=> kind[req'[r].got] = "good"
  <2>1. CASE req'[r] = req[r]
    BY <1>1, <2>1 DEF AnswersInv
  <2>2. ASSUME NEW s \in Requests, WrongMethod(s) \/ Handle(s), req'[r] # req[r]
        PROVE  /\ req'[r].got \in 0 .. file
               /\ req'[r].code = 200 <=> kind[req'[r].got] = "good"
    <3>1. s = r
      BY <2>2, ReloadAssumption, RequestSteps
    <3>2. \/ req[r].pc = "posted" /\ kind[file] # "good" /\ req'[r].code = 500 /\ req'[r].got = file
          \/ req[r].pc = "installed" /\ req'[r].code = 200 /\ req'[r].got = req[r].got
      BY <1>1, <2>2, <3>1, ReloadAssumption, RequestSteps
    <3>3. req[r].pc = "installed" => req[r].got \in 0 .. file /\ kind[req[r].got] = "good"
      BY <1>0 DEF BuiltInv, TypeOK, Handlers
    <3> QED
      BY <1>0, <3>2, <3>3
  <2>3. ASSUME NEW s \in Requests, Post(s) PROVE req'[r] = req[r]
    <3>1. s # r
      BY <1>1, <2>3, ReloadAssumption, PostStep
    <3> QED
      BY <2>3, <3>1, ReloadAssumption, PostStep
  <2>4. ASSUME NEW k \in Kinds, Edit(k) PROVE req'[r] = req[r]
    BY <2>4 DEF Edit
  <2>5. CASE DispatchBegins \/ DispatchEnds \/ UNCHANGED vars
    BY <2>1, <2>5 DEF DispatchBegins, DispatchEnds, vars
  <2> QED
    BY <2>1, <2>2, <2>3, <2>4, <2>5, StepOfReload DEF Next
<1>2. file' \in {file, file + 1} /\ \A v \in 0 .. file : kind'[v] = kind[v]
  BY VersionsStay
<1> QED
  BY <1>0, <1>1, <1>2 DEF AnswersInv

(* What a test has loaded has notifiers.                                   *)
LEMMA GoodFilesHaveSome ==
    ASSUME ContentTyped, KindsInv, NEW v \in 0 .. file, v \in Versions, kind[v] = "good"
    PROVE  DOMAIN content[v].notifiers # {}
<1>1. content[v] \in Files /\ KindOf(content[v]) = "good"
  BY DEF ContentTyped, KindsInv
<1>2. Loads(content[v])
  BY <1>1, Zenon DEF KindOf
<1>3. content[v].notifiers \in Seq({content[v].notifiers[n] : n \in DOMAIN content[v].notifiers})
  BY <1>1, CommandsAssumption
<1>4. content[v].notifiers # <<>>
  BY <1>2 DEF Loads
<1> QED
  BY <1>3, <1>4

LEMMA VerdictStep ==
    ASSUME Shape, TypeOK, ContentTyped, ResultsInv, KindsInv, VerdictInv, [CommandsNext]_allVars
    PROVE  VerdictInv'
<1>0. file \in Nat /\ file \in Versions
  BY ReloadAssumption DEF TypeOK, Versions
<1>1. CASE Command
  <2>1. UNCHANGED <<file, content, kind>>
    BY <1>1, CommandSteps DEF vars
  <2>2. CASE Prepares
    <3>1. cmd.results = <<>> /\ cmd'.results = <<>>
      BY <2>2 DEF Prepares, ResultsInv
    <3>2. cmd.code = -1
      BY <2>2 DEF Prepares, VerdictInv
    <3> QED
      BY <2>1, <2>2, <3>1, <3>2 DEF Prepares, VerdictInv
  <2>3. CASE LooksUp
    <3>1. cmd'.name = "test" => kind[cmd'.from] = "good" /\ cmd'.from \in 0 .. file
      BY <2>3 DEF LooksUp, VerdictInv, ResultsInv
    <3>2. cmd'.name = "test" => cmd'.results # <<>>
      <4>1. SUFFICES ASSUME cmd'.name = "test" PROVE cmd'.results # <<>>
        OBVIOUS
      <4>2. cmd'.from \in Versions
        BY <1>0, <3>1, <4>1, ReloadAssumption DEF TypeOK, Versions
      <4>3. DOMAIN content[cmd'.from].notifiers # {}
        BY <3>1, <4>1, <4>2, GoodFilesHaveSome
      <4>4. DOMAIN cmd'.results = DOMAIN content[cmd'.from].notifiers
        BY <2>1, <2>3 DEF LooksUp
      <4> QED
        BY <4>3, <4>4
    <3>3. cmd'.name # "validate" /\ cmd'.code = -1 /\ cmd'.pc = "sending"
      BY <2>3 DEF LooksUp, VerdictInv
    <3> QED
      BY <2>1, <3>1, <3>2, <3>3 DEF VerdictInv
  <2>4. ASSUME NEW i \in cmd.pending, NEW ok \in BOOLEAN, Finishes(i, ok) PROVE VerdictInv'
    <3>1. cmd.results # <<>> => cmd'.results # <<>>
      <4>1. DOMAIN cmd'.results = DOMAIN cmd.results /\ cmd.results = [j \in DOMAIN Used(cmd) |-> cmd.results[j]]
        BY <2>4 DEF Finishes, ResultsInv
      <4> QED
        BY <4>1
    <3>2. /\ cmd.pc = "sending" /\ cmd'.pc = "sending"
          /\ UNCHANGED <<cmd.name, cmd.from, cmd.code>>
      BY <2>4 DEF Finishes
    <3> QED
      BY <2>1, <3>1, <3>2 DEF VerdictInv
  <2>5. CASE Reports
    <3>1. cmd.name # "validate"
      BY <2>5 DEF Reports, VerdictInv
    <3> QED
      BY <2>1, <2>5, <3>1 DEF Reports, VerdictInv
  <2> QED
    BY <1>1, <2>2, <2>3, <2>4, <2>5, CommandSteps
<1>2. CASE UNCHANGED cmd
  <2>1. cmd.from \in 0 .. file
    BY DEF ResultsInv
  <2>2. content'[cmd.from] = content[cmd.from] /\ kind'[cmd.from] = kind[cmd.from]
    BY <2>1, VersionsStay
  <2> QED
    BY <1>2, <2>2 DEF VerdictInv
<1> QED
  BY <1>1, <1>2 DEF CommandsNext, EditFile, Reloading, Dispatching, allVars

(* What `ipnotify validate` and `ipnotify test` say of a version is what   *)
(* POST /reload makes of it, however the two and the edits interleave.     *)
LEMMA KindsHold == CommandsSpec => []KindsInv
<1>1. CommandsInit => KindsInv
  <2> SUFFICES ASSUME CommandsInit PROVE KindsInv
    OBVIOUS
  <2>1. PICK f \in Files : KindOf(f) = "good" /\ content = [v \in Versions |-> f]
    BY DEF CommandsInit
  <2> QED
    BY <2>1, ReloadAssumption DEF CommandsInit, Init, KindsInv, Versions
<1>2. Shape /\ TypeOK /\ ContentTyped /\ KindsInv /\ [CommandsNext]_allVars => KindsInv'
  BY KindsStep
<1> QED
  BY <1>1, <1>2, ShapeHolds, ReloadTyped, ContentHolds, PTL DEF CommandsSpec

THEOREM CommandsForetellReloads == CommandsSpec => []CommandsForetell
<1> DEFINE ForetellInv == AnswersInv /\ VerdictInv
<1>1. CommandsInit => ForetellInv
  <2> SUFFICES ASSUME CommandsInit PROVE ForetellInv
    OBVIOUS
  <2>1. AnswersInv
    BY DEF CommandsInit, Init, AnswersInv
  <2>2. VerdictInv
    BY DEF CommandsInit, NoCommand, VerdictInv
  <2> QED
    BY <2>1, <2>2
<1>2. Shape /\ TypeOK /\ ContentTyped /\ BuiltInv /\ ResultsInv /\ KindsInv /\ ForetellInv
        /\ [CommandsNext]_allVars => ForetellInv'
  BY AnswersStep, VerdictStep
<1>3. ContentTyped /\ ResultsInv /\ KindsInv /\ ForetellInv => CommandsForetell
  <2> SUFFICES ASSUME ContentTyped, ResultsInv, KindsInv, ForetellInv, NEW r \in Requests,
                      req[r].pc = "answered", req[r].got = cmd.from,
                      req[r].code \in {200, 500}
               PROVE  /\ cmd.name = "validate" /\ cmd.code = 1 => req[r].code # 200
                      /\ cmd.name = "validate" /\ cmd.code = 0 /\ req[r].code = 500 =>
                            \E n \in DOMAIN Used(cmd) : ~Builds(Used(cmd)[n])
                      /\ cmd.name = "test" /\ cmd.results # <<>> => req[r].code # 500
                      /\ cmd.name = "test" /\ cmd.pc = "over" /\ cmd.results = <<>> =>
                            req[r].code # 200
    BY DEF CommandsForetell
  <2>1. req[r].code = 200 <=> kind[cmd.from] = "good"
    BY DEF AnswersInv
  <2>2. kind[cmd.from] = KindOf(content[cmd.from])
    BY DEF KindsInv, ResultsInv
  <2>3. ~Loads(content[cmd.from]) => kind[cmd.from] # "good"
    BY <2>2, Zenon DEF KindOf
  <2>4. Loads(content[cmd.from]) /\ kind[cmd.from] # "good" =>
            \E n \in DOMAIN Used(cmd) : ~Builds(Used(cmd)[n])
    BY <2>2, Zenon DEF KindOf, Used
  <2> QED
    BY <2>1, <2>3, <2>4 DEF VerdictInv
<1> QED
  BY <1>1, <1>2, <1>3, ShapeHolds, ReloadTyped, ContentHolds, ResultsHold, KindsHold,
     CommandsImplementReload, BuiltHolds, PTL DEF CommandsSpec

(* For every width of time.Duration, every set of floats, and whatever the *)
(* processor makes of a number that is out of range.                       *)
THEOREM SafeIntervals == CommandsSpec => []IntervalsAreSafe
<1>1. ASSUME TypeOK, ContentTyped, KindsInv PROVE IntervalsAreSafe
  <2> SUFFICES ASSUME NEW v \in 0 .. file, NEW x \in {"local", "public"}, kind[v] # "invalid"
               PROVE  content[v][x].interval \in UsableIntervals
    BY DEF IntervalsAreSafe
  <2> DEFINE f == content[v]
  <2>1. v \in Versions
    BY <1>1, ReloadAssumption DEF TypeOK, Versions
  <2>2. f \in Files /\ f[x].interval \in Written
    BY <1>1, <2>1, CommandsAssumption DEF ContentTyped
  <2>3. KindOf(f) # "invalid"
    BY <1>1 DEF KindsInv
  <2>4. Loads(f)
    BY <2>3, Zenon DEF KindOf
  <2>5. Decodes(f[x].interval)
    BY <2>4 DEF Loads
  <2> QED
    BY <2>2, <2>5, DecodedIsSafe DEF UsableIntervals
<1> QED
  BY <1>1, ReloadTyped, ContentHolds, KindsHold, PTL

=============================================================================
