--------------------------- MODULE MCWakeDelivery ---------------------------
(* Small instances of wake delivery; the constants are in the configurations. *)
EXTENDS WakeDelivery
=============================================================================
