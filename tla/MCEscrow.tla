------------------------------ MODULE MCEscrow ------------------------------
(***************************************************************************)
(* The instances of Escrow that TLC checks.                                *)
(***************************************************************************)
EXTENDS Escrow
=============================================================================
