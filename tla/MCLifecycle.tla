---------------------------- MODULE MCLifecycle ----------------------------
(***************************************************************************)
(* A small instance of Lifecycle for TLC: two hits on one boss, one on     *)
(* another.                                                                *)
(***************************************************************************)
EXTENDS Lifecycle

ThreeHits == <<1, 1, 2>>
=============================================================================
