------------------------------- MODULE Ledger -------------------------------
(***************************************************************************)
(* What Engine.Run promises the people it notifies, without watchers,      *)
(* channel or dedup map: a ledger that holds, for every key somebody was   *)
(* told about, the last address list told.  Each new entry is a change,    *)
(* and starts where the entry before it ended.                             *)
(***************************************************************************)
CONSTANTS Keys, Lists, NoAddrs

VARIABLES
    told,   \* per key, the list told last
    known,  \* the keys told about so far
    note    \* the entry written last

vars == <<told, known, note>>

Init ==
    /\ told = [k \in Keys |-> NoAddrs]
    /\ known = {}
    /\ note \in [key : Keys, old : Lists, new : Lists]

(* Subscribers are told that k went from old to new.  A key they never     *)
(* heard of is not announced as gone.                                      *)
Tell(k, old, new) ==
    /\ old # new
    /\ IF k \in known THEN old = told[k] ELSE new # NoAddrs
    /\ told' = [told EXCEPT ![k] = new]
    /\ known' = known \cup {k}
    /\ note' = [key |-> k, old |-> old, new |-> new]

Next == \E k \in Keys, old, new \in Lists : Tell(k, old, new)

Spec == Init /\ [][Next]_vars

=============================================================================
