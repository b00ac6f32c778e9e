------------------------------ MODULE MCTouchLoop ------------------------------
(***************************************************************************)
(* TouchLoop for TLC: every library call and every transfer of the EC, in  *)
(* every order.                                                            *)
(***************************************************************************)
EXTENDS TouchLoop
=============================================================================
