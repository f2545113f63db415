-------------------------- MODULE MCProductContext --------------------------
(* Instances of ProductContext for TLC.                                     *)
EXTENDS ProductContext
=============================================================================
