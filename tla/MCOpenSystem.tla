----------------------------- MODULE MCOpenSystem -----------------------------
(***************************************************************************)
(* OpenSystem for TLC.                                                     *)
(***************************************************************************)
EXTENDS OpenSystem
=============================================================================
