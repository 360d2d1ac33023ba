----------------------------- MODULE MCSuspend -----------------------------
(* Suspend for TLC: an asynchronous hub with an asynchronous device below  *)
(* it, and a key without a parent.                                         *)
EXTENDS Suspend

CONSTANTS hub, dev, key

Registered == <<hub, dev, key>>
HubAndKey == hub :> None @@ dev :> hub @@ key :> None

=============================================================================
