--------------------------- MODULE EscrowRefines ---------------------------
(***************************************************************************)
(* Escrow keeps the promise of EscrowPromise while no deal that is still   *)
(* waiting for its invoice is forced into arbitration (DisciplinedSpec).   *)
(*                                                                         *)
(* The pot of a deal is nowhere in the database: it is what the deal's     *)
(* status says the buyer's locked column must hold for it.  What is left   *)
(* of the locked column is the money reserved for withdrawals.             *)
(***************************************************************************)
EXTENDS Escrow

PhaseOf(d) ==
  CASE status[d] = "none" -> "none"
    [] status[d] = "pending_topup" -> "open"
    [] status[d] \in Active -> "funded"
    [] OTHER -> "closed"

Promise == INSTANCE EscrowPromise WITH
  spendable <- amount,
  reserved  <- [u \in User |-> locked[u] - HeldFor(u)],
  pot       <- [d \in Deal |-> Held(d)],
  phase     <- [d \in Deal |-> PhaseOf(d)],
  parties   <- [d \in Deal |-> [buyer |-> terms[d].buyer,
                                seller |-> terms[d].seller]],
  taken     <- net,
  kept      <- fees + unattached

(* Every step of every handler is a step of the promise or leaves what the *)
(* promise speaks of as it was: a pot is filled once by its own buyer and  *)
(* emptied once to its own parties, whichever of the participants, the     *)
(* admins, the sweeps and the payment webhook closes the deal.             *)
KeepsPromise == Promise!Spec
=============================================================================
