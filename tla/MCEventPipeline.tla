--------------------------- MODULE MCEventPipeline ---------------------------
(***************************************************************************)
(* Small instances of EventPipeline for TLC.                               *)
(***************************************************************************)
EXTENDS EventPipeline, TLC

CONSTANTS eth0, wlan0, a, b

TwoInterfaces == {eth0, wlan0}
OneInterface  == {eth0}
TwoAddrs      == {a, b}

AllWatchers  == {"local", "public"}
LocalOnly    == {"local"}

(* Interfaces and address lists are interchangeable in the safety runs.    *)
Symmetry == Permutations(TwoInterfaces) \cup Permutations(TwoAddrs)

=============================================================================
