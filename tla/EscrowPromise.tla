--------------------------- MODULE EscrowPromise ---------------------------
(***************************************************************************)
(* What the escrow service promises its users, without saying how.         *)
(*                                                                         *)
(* Every deal has a pot that belongs to its two parties and to nobody      *)
(* else.  The buyer fills it once, with money the buyer has; it is emptied *)
(* once, and all of it goes to the two parties.  Beside the pots a user    *)
(* owns spendable money and money reserved for a withdrawal; money enters  *)
(* from a provider and leaves to one, and the platform keeps what it takes *)
(* as commission.  Nothing else ever moves money.                          *)
(*                                                                         *)
(* Escrow implements this specification: see EscrowRefines.                *)
(***************************************************************************)
EXTENDS Integers

CONSTANTS User, Deal

VARIABLES
  spendable,  \* per user: money it can spend or withdraw
  reserved,   \* per user: money bound by its withdrawals
  pot,        \* per deal: money in escrow
  phase,      \* per deal: "none", "open", "funded", "closed"
  parties,    \* per deal: [buyer, seller]
  taken,      \* money that came in less money that went out
  kept        \* money the platform keeps

vars == <<spendable, reserved, pot, phase, parties, taken, kept>>

Init ==
  /\ spendable = [u \in User |-> 0]
  /\ reserved = [u \in User |-> 0]
  /\ pot = [d \in Deal |-> 0]
  /\ phase = [d \in Deal |-> "none"]
  /\ parties = [d \in Deal |-> [buyer |-> 0, seller |-> 0]]
  /\ taken = 0
  /\ kept = 0

(* What is left of the money that arrives in a step after commission.      *)
Income == (taken' - taken) - (kept' - kept)

(* A provider pays in for u; the platform may keep a part as commission.   *)
PayIn(u) ==
  /\ taken' > taken
  /\ kept' >= kept
  /\ Income >= 0
  /\ spendable' = [spendable EXCEPT ![u] = @ + Income]
  /\ UNCHANGED <<reserved, pot, phase, parties>>

(* An administrator takes back spendable money.                            *)
TakeBack(u) ==
  /\ taken' < taken
  /\ spendable' = [spendable EXCEPT ![u] = @ + (taken' - taken)]
  /\ spendable'[u] >= 0
  /\ UNCHANGED <<reserved, pot, phase, parties, kept>>

(* Spendable money becomes reserved money, or the other way round.         *)
Reserve(u) ==
  /\ reserved'[u] >= 0
  /\ spendable'[u] >= 0
  /\ reserved' = [reserved EXCEPT ![u] = reserved'[u]]
  /\ spendable' = [spendable EXCEPT ![u] = @ - (reserved'[u] - reserved[u])]
  /\ UNCHANGED <<pot, phase, parties, taken, kept>>

(* Reserved money leaves.                                                  *)
PayOut(u) ==
  /\ taken' < taken
  /\ reserved' = [reserved EXCEPT ![u] = @ + (taken' - taken)]
  /\ reserved'[u] >= 0
  /\ UNCHANGED <<spendable, pot, phase, parties, kept>>

(* Two different users agree on a deal; its pot is still empty.            *)
Agree(d, b, s) ==
  /\ b # s
  /\ parties' = [parties EXCEPT ![d] = [buyer |-> b, seller |-> s]]

Open(d) ==
  /\ phase[d] = "none"
  /\ phase' = [phase EXCEPT ![d] = "open"]
  /\ \E b, s \in User : Agree(d, b, s)
  /\ UNCHANGED <<spendable, reserved, pot, taken, kept>>

(* The buyer's money, and nobody else's, fills the pot.                    *)
Fund(d) ==
  /\ phase' = [phase EXCEPT ![d] = "funded"]
  /\ \/ /\ phase[d] = "none"
        /\ \E b, s \in User : Agree(d, b, s)
     \/ /\ phase[d] = "open"
        /\ UNCHANGED parties
  /\ pot'[d] > 0
  /\ pot' = [pot EXCEPT ![d] = pot'[d]]
  /\ taken' >= taken
  /\ kept' >= kept
  /\ LET b == parties'[d].buyer IN
       /\ spendable' = [spendable EXCEPT ![b] = @ + Income - pot'[d]]
       /\ spendable'[b] >= 0
  /\ UNCHANGED reserved

(* The whole pot goes to the two parties, in shares of at least nothing.   *)
Settle(d) ==
  LET b == parties[d].buyer
      s == parties[d].seller
      toBuyer == spendable'[b] - spendable[b]
  IN
  /\ phase[d] = "funded"
  /\ phase' = [phase EXCEPT ![d] = "closed"]
  /\ pot' = [pot EXCEPT ![d] = 0]
  /\ 0 <= toBuyer /\ toBuyer <= pot[d]
  /\ spendable' = [spendable EXCEPT ![b] = @ + toBuyer,
                                    ![s] = @ + (pot[d] - toBuyer)]
  /\ UNCHANGED <<reserved, parties, taken, kept>>

(* A deal whose pot was never filled is dropped; no money moves.           *)
Abandon(d) ==
  /\ phase[d] = "open"
  /\ phase' = [phase EXCEPT ![d] = "closed"]
  /\ UNCHANGED <<spendable, reserved, pot, parties, taken, kept>>

Next ==
  \/ \E u \in User : PayIn(u) \/ TakeBack(u) \/ Reserve(u) \/ PayOut(u)
  \/ \E d \in Deal : Open(d) \/ Fund(d) \/ Settle(d) \/ Abandon(d)

Spec == Init /\ [][Next]_vars
=============================================================================
