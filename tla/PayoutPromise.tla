--------------------------- MODULE PayoutPromise ---------------------------
(***************************************************************************)
(* What the withdrawals promise a user, without saying who decides, who    *)
(* calls whom or what is written when.                                     *)
(*                                                                         *)
(* A withdrawal takes its value from what the user can spend and holds it. *)
(* It ends once: paid, when the value has left, or returned, when the user *)
(* can spend it again.  What is on hold for anything else, the pots of his *)
(* deals, no withdrawal touches.                                           *)
(*                                                                         *)
(* Withdrawals, decided by one hand, implement this specification: see     *)
(* MCWithdrawalsOneHand.                                                   *)
(***************************************************************************)
EXTENDS Money

CONSTANTS NWithdrawals, Funds, Bound

VARIABLES
  own,     \* what the user can spend
  others,  \* what is on hold for anything but a withdrawal
  value,   \* per withdrawal, what it is about
  fate     \* per withdrawal: "none", "held", "paid", "returned"

vars == <<own, others, value, fate>>

Withdrawal == 1..NWithdrawals

Init ==
  /\ own = Funds /\ others = Bound
  /\ value = [w \in Withdrawal |-> 0]
  /\ fate = [w \in Withdrawal |-> "none"]

(* What the withdrawals in S are about.                                    *)
Worth(S) == Total([w \in Withdrawal |-> IF w \in S THEN value[w] ELSE 0], NWithdrawals)

(* The user asks for something he can spend.                               *)
Ask(w) ==
  /\ fate[w] = "none"
  /\ fate' = [fate EXCEPT ![w] = "held"]
  /\ value' = [value EXCEPT ![w] = value'[w]]
  /\ 0 < value'[w] /\ value'[w] <= own
  /\ own' = own - value'[w]
  /\ UNCHANGED others

(* Withdrawals on hold end, several at once where the decider takes them   *)
(* together.                                                               *)
End(paid, returned) ==
  /\ paid \cap returned = {}
  /\ \A w \in paid \cup returned : fate[w] = "held"
  /\ fate' = [w \in Withdrawal |-> IF w \in paid THEN "paid"
                                   ELSE IF w \in returned THEN "returned"
                                   ELSE fate[w]]
  /\ own' = own + Worth(returned)
  /\ UNCHANGED <<others, value>>

Next ==
  \/ \E w \in Withdrawal : Ask(w)
  \/ \E paid, returned \in SUBSET Withdrawal : End(paid, returned)

Spec == Init /\ [][Next]_vars
=============================================================================
