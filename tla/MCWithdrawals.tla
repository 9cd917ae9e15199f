--------------------------- MODULE MCWithdrawals ---------------------------
(***************************************************************************)
(* The instances of Withdrawals that TLC checks.                           *)
(***************************************************************************)
EXTENDS Withdrawals

CONSTANTS a1, a2   \* requests to decide
=============================================================================
