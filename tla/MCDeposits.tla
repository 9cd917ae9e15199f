----------------------------- MODULE MCDeposits -----------------------------
(***************************************************************************)
(* The instances of Deposits that TLC checks.                              *)
(***************************************************************************)
EXTENDS Deposits

CONSTANTS r1, r2   \* requests
=============================================================================
