----------------------------- MODULE MCOpenDevice -----------------------------
(***************************************************************************)
(* OpenDevice for TLC: every transfer of the EC in every order.            *)
(***************************************************************************)
EXTENDS OpenDevice
=============================================================================
