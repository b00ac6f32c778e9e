------------------------------- MODULE MCBridge -------------------------------
(* Bridge with a few image records and every way to cut the EC's flights. *)
EXTENDS Bridge

\* The images of this instance fit the endpoint's queue.
ASSUME RoomAssumption == Room
=============================================================================
