------------------------------ MODULE MCReload ------------------------------
(***************************************************************************)
(* A small instance of Reload for TLC.                                     *)
(***************************************************************************)
EXTENDS Reload

CONSTANTS r1, r2

TwoRequests == {r1, r2}

=============================================================================
