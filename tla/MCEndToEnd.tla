----------------------------- MODULE MCEndToEnd -----------------------------
(***************************************************************************)
(* A small instance of EndToEnd for TLC.                                   *)
(***************************************************************************)
EXTENDS EndToEnd

CONSTANTS eth0, a, n1, n2

OneInterface   == {eth0}
OneAddr        == {a}
LocalOnly      == {"local"}
TwoNotifiers   == {n1, n2}
Second         == {n2}
DifferentTypes == [n \in {n1, n2} |-> n]

=============================================================================
