------------------------ MODULE MCWithdrawalsOneHand ------------------------
(***************************************************************************)
(* Withdrawals that one hand decides: admins, one request after another,   *)
(* while no stale sweep runs, or the sweep while no admin decides.  Which  *)
(* of the two is chosen at the start.                                      *)
(***************************************************************************)
EXTENDS Withdrawals

CONSTANTS a1, a2   \* requests to decide

VARIABLE hand

(* Two requests to decide at once overwrite each other's decisions         *)
(* (RejectedStaysRejected).                                                *)
Alone(a) == \A b \in Admins \ {a} : deciding[b] = None

HandInit == Init /\ hand \in {"admin", "sweep"}

(* Where an admin decides, requests find that there is one.                *)
HandNext ==
  /\ \/ \E w \in Withdrawal : Request(w)
     \/ hand = "admin" /\ \E a \in Admins : Alone(a) /\ Decide(a)
     \/ hand = "sweep" /\ SweepRun
  /\ hand = "admin" => unattended' = {}
  /\ UNCHANGED hand

OneHandSpec == HandInit /\ [][HandNext]_<<vars, hand>>

(* The sweep loop runs for as long as the process does.                    *)
Sweeping(A) == hand = "sweep" /\ A

SweepFairness ==
  /\ WF_vars(Sweeping(SweepStart))
  /\ \A w \in Withdrawal : WF_vars(Sweeping(SweepAsk(w) \/ SweepSkip(w)))
  /\ WF_vars(Sweeping(SweepApply))
  /\ WF_vars(Sweeping(SweepCommit))

HandSpec == OneHandSpec /\ Fairness /\ SweepFairness

(* While no admin decides, what is booked is what CryptoBot did: neither   *)
(* the request nor the sweep pays and refunds the same withdrawal          *)
(* (create_withdrawal, sweep_stale_withdrawals).                           *)
SweptAsDelivered == hand = "sweep" => SettledAsDelivered

(* A withdrawal whose payout failed or crashed does not stay pending for   *)
(* ever, even when no admin ever looks at it (sweep_stale_withdrawals).    *)
StaleReconciled ==
  \A w \in Withdrawal : (hand = "sweep" /\ status[w] = "pending") ~> status[w] # "pending"

(* A withdrawal as the user sees it.                                       *)
Fate == [w \in Withdrawal |-> IF status[w] \in Open THEN "held"
                              ELSE IF status[w] = "sent" THEN "paid"
                              ELSE IF status[w] = "rejected" THEN "returned"
                              ELSE "none"]

Promise == INSTANCE PayoutPromise
  WITH own <- amount, others <- locked - SumOf(Open), value <- size, fate <- Fate

(* The request, the admin and the sweep together are one payout desk: each *)
(* withdrawal is settled once, for what was asked, and the pots of the     *)
(* user's deals in the same column are never drawn on (create_withdrawal,  *)
(* decide_withdrawal, sweep_stale_withdrawals).                            *)
PayoutsKeepPromise == Promise!Spec
=============================================================================
