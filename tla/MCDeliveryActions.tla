------------------------- MODULE MCDeliveryActions -------------------------
(* Instances of DeliveryActions for TLC.                                   *)
EXTENDS DeliveryActions, TLC

Callers == Permutations(Client)
CallersAndActions == Permutations(Client) \cup Permutations(Action)
=============================================================================
