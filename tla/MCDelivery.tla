----------------------------- MODULE MCDelivery -----------------------------
(***************************************************************************)
(* Small instances of Delivery for TLC: a chat notifier and a webhook.     *)
(***************************************************************************)
EXTENDS Delivery, TLC

CONSTANTS n1, n2

OneNotifier  == {n1}
TwoNotifiers == {n1, n2}
Second       == {n2}
Nobody       == {}

DifferentTypes == (n1 :> "telegram") @@ (n2 :> "webhook")

LoopOnly    == {}
WithStartup == {Startup}
WithBoth    == {Startup, Test}

=============================================================================
