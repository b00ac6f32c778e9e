----------------------------- MODULE MCTouchSystem -----------------------------
(***************************************************************************)
(* TouchSystem for TLC.                                                    *)
(***************************************************************************)
EXTENDS TouchSystem

ASSUME SystemAssumption
=============================================================================
