------------------------------ MODULE MCExchange ------------------------------
(* The exchange machine with the driver's own limits. *)
EXTENDS Exchange
=============================================================================
