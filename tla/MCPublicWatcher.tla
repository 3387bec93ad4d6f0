-------------------------- MODULE MCPublicWatcher --------------------------
(***************************************************************************)
(* Small instances of PublicWatcher for TLC.                               *)
(***************************************************************************)
EXTENDS PublicWatcher

CONSTANTS a, b, c

ThreeAddrs == {a, b, c}
TwoBad     == {1, 4}

=============================================================================
