------------------------------- MODULE Escrow -------------------------------
(***************************************************************************)
(* The deal state machine and the balances it moves.                       *)
(*                                                                         *)
(* Every handler modelled here runs in one database transaction that holds *)
(* FOR UPDATE locks on the rows it reads before writing them (the deal, by *)
(* routers/deals._get_locked or routers/admin/deals._get_deal_or_404 with  *)
(* lock=True; the deposit, by the payment webhook; the balances, by        *)
(* lock_user_balance), so one handler is one action.  Handlers that give   *)
(* up their locks half way are the subject of modules Withdrawals and      *)
(* Deposits; here a withdrawal is only its effect on the balance.          *)
(***************************************************************************)
EXTENDS Money, FiniteSets

CONSTANTS
  NUsers,        \* users.id ranges over 1..NUsers
  NDeals,        \* deals.id ranges over 1..NDeals (serial, never reused)
  NInvoices,     \* wallet_deposits.id of the deal_topup deposits
  Amounts,       \* principals a buyer may ask for
  Rates,         \* commission percentages the settings may hold
  Percents,      \* buyer shares an admin may split by
  Payments,      \* amounts a provider may report for an invoice
  Transfers,     \* amounts of wallet credits, adjustments and withdrawals
  MaxNet         \* bound: money inside the system at any one time

User == 1..NUsers
Deal == 1..NDeals
Invoice == 1..NInvoices
None == 0        \* SQL NULL in a foreign key

ASSUME EscrowAssumption ==
  /\ NUsers \in Nat /\ NDeals \in Nat /\ NInvoices \in Nat
  /\ Amounts \subseteq Nat \ {0}
  /\ Rates \subseteq 0..100
  /\ Percents \subseteq 0..100
  /\ Payments \subseteq Nat \ {0}
  /\ Transfers \subseteq Nat \ {0}
  /\ MaxNet \in Nat

VARIABLES
  status,           \* deals.status; "none" before the row exists
  terms,            \* buyer_id, seller_id, amount, commission_amount
  commission_paid,  \* deals.commission_paid
  initiator,        \* deals.cancellation_initiator_id
  topup,            \* deals.topup_deposit_id
  invoice,          \* the deal_topup rows of wallet_deposits
  amount,           \* user_balances.amount
  locked,           \* user_balances.locked
  stats,            \* users.deals_total / _success / _failed / _arbitrage
  onHold,           \* per user, principal of open withdrawals
  net,              \* observed: money taken in less money paid out
  fees,             \* observed: commission the platform kept
  unattached,       \* observed: invoices paid for a deal that is gone
  forced            \* observed: how admin forced the deal into arbitration

dealVars    == <<status, terms, commission_paid, initiator, topup>>
balanceVars == <<amount, locked>>
observed    == <<net, fees, unattached, forced>>
vars == <<dealVars, invoice, balanceVars, stats, onHold, observed>>

-----------------------------------------------------------------------------
(* Deal statuses.                                                          *)

Terminal == {"cancelled", "completed", "resolved_for_buyer",
             "resolved_for_seller", "cancelled_for_inactivity"}

(* _is_active_for_money_movement: the statuses in which the code takes the *)
(* principal to be inside the buyer's locked column.                       *)
Active == {"pending_confirmation", "in_progress", "pending_cancellation",
           "arbitration"}

(* Mutant: a deal the seller has not accepted may be taken there too.      *)
EligibleUnaccepted == {"pending_confirmation", "in_progress",
                       "pending_cancellation"}

(* _ARBITRATION_ELIGIBLE: what a participant may take to arbitration.      *)
ArbitrationEligible == {"in_progress", "pending_cancellation"}

Status == Terminal \cup Active \cup {"none", "pending_topup", "deleted"}

Outcome == {"total", "success", "failed", "arbitrage"}

Term == [buyer : 0..NUsers, seller : 0..NUsers, amount : Nat, commission : Nat]

InvoiceRow == [status : {"none", "pending", "paid", "expired"},
               deal : 0..NDeals, total : Nat]

TypeOK ==
  /\ status \in [Deal -> Status]
  /\ terms \in [Deal -> Term]
  /\ commission_paid \in [Deal -> BOOLEAN]
  /\ initiator \in [Deal -> 0..NUsers]
  /\ topup \in [Deal -> 0..NInvoices]
  /\ invoice \in [Invoice -> InvoiceRow]
  /\ amount \in [User -> Nat]
  /\ locked \in [User -> Nat]
  /\ stats \in [Outcome -> [User -> Nat]]
  /\ onHold \in [User -> Nat]
  /\ net \in Int /\ fees \in Nat /\ unattached \in Nat
  /\ forced \in [Deal -> {"no", "funded", "unfunded"}]

Init ==
  /\ status = [d \in Deal |-> "none"]
  /\ terms = [d \in Deal |-> [buyer |-> None, seller |-> None,
                              amount |-> 0, commission |-> 0]]
  /\ commission_paid = [d \in Deal |-> FALSE]
  /\ initiator = [d \in Deal |-> None]
  /\ topup = [d \in Deal |-> None]
  /\ invoice = [i \in Invoice |-> [status |-> "none", deal |-> None, total |-> 0]]
  /\ amount = [u \in User |-> 0]
  /\ locked = [u \in User |-> 0]
  /\ stats = [k \in Outcome |-> [u \in User |-> 0]]
  /\ onHold = [u \in User |-> 0]
  /\ net = 0 /\ fees = 0 /\ unattached = 0
  /\ forced = [d \in Deal |-> "no"]

-----------------------------------------------------------------------------
(* Helpers shared by the handlers.                                         *)

Parties(d) == {terms[d].buyer, terms[d].seller}

(* Serial primary keys: the next row takes the lowest id not used yet.     *)
IsNextDeal(d) == status[d] = "none" /\ \A e \in 1..(d - 1) : status[e] # "none"
IsNextInvoice(i) ==
  invoice[i].status = "none" /\ \A j \in 1..(i - 1) : invoice[j].status # "none"

(* Mutant: the decrement of locked without its clamp at zero.              *)
RefundUnclamped(u, p) ==
  /\ locked' = [locked EXCEPT ![u] = @ - p]
  /\ amount' = [amount EXCEPT ![u] = @ + p]

(* _refund_principal, and _refund_locked_to_buyer on the admin side.       *)
RefundPrincipal(u, p) ==
  /\ locked' = [locked EXCEPT ![u] = AtLeastZero(@ - p)]
  /\ amount' = [amount EXCEPT ![u] = @ + p]

(* Mutant: the payee is credited, the payer's pot is not unlocked.         *)
ReleaseKeepsLocked(payer, payee, p) ==
  /\ amount' = [amount EXCEPT ![payee] = @ + p]
  /\ UNCHANGED locked

(* _release_to, and _release_locked_to_seller on the admin side.           *)
ReleaseTo(payer, payee, p) ==
  /\ locked' = [locked EXCEPT ![payer] = AtLeastZero(@ - p)]
  /\ amount' = [amount EXCEPT ![payee] = @ + p]

(* UPDATE users SET deals_x = deals_x + 1 WHERE id IN S.                   *)
Bump(counter, S) == [u \in User |-> counter[u] + IF u \in S THEN 1 ELSE 0]

(* Mutant: an earlier partial payment of the commission is forgotten.      *)
CommissionDueAgain(d) == terms[d].commission

(* commission_due in complete_deal_topup_payment.                          *)
CommissionDue(d) == IF commission_paid[d] THEN 0 ELSE terms[d].commission

(* The row _issue_remaining_topup_invoice attaches to the deal.            *)
RemainingInvoice(d, balance, due) ==
  [status |-> "pending", deal |-> d,
   total |-> AtLeastZero(terms[d].amount - balance) + due]

(* Mutant: a deal leaving pending_topup leaves its invoice open.           *)
KeepTopup(d) == UNCHANGED invoice

(* A deal leaving pending_topup takes its still open invoice with it.      *)
ExpireTopup(d) ==
  invoice' = [i \in Invoice |->
                IF i = topup[d] /\ invoice[i].status = "pending"
                THEN [invoice[i] EXCEPT !.status = "expired"]
                ELSE invoice[i]]

Close(d, final) == status' = [status EXCEPT ![d] = final]

-----------------------------------------------------------------------------
(* Money crossing the border of the system outside any deal.               *)

(* credit_deposit for purpose 'wallet'.  Which deliveries reach it is the  *)
(* subject of Deposits.                                                    *)
WalletCredit(u, x) ==
  /\ net + x <= MaxNet
  /\ amount' = [amount EXCEPT ![u] = @ + x]
  /\ net' = net + x
  /\ UNCHANGED <<dealVars, invoice, locked, stats, onHold, fees, unattached, forced>>

(* admin adjust_user_balance with a negative delta (a positive one has the *)
(* effect of WalletCredit).                                                *)
AdjustDown(u, x) ==
  /\ amount[u] >= x
  /\ amount' = [amount EXCEPT ![u] = @ - x]
  /\ net' = net - x
  /\ UNCHANGED <<dealVars, invoice, locked, stats, onHold, fees, unattached, forced>>

(* create_withdrawal, phase 1.                                             *)
HoldWithdrawal(u, x) ==
  /\ amount[u] >= x
  /\ amount' = [amount EXCEPT ![u] = @ - x]
  /\ locked' = [locked EXCEPT ![u] = @ + x]
  /\ onHold' = [onHold EXCEPT ![u] = @ + x]
  /\ UNCHANGED <<dealVars, invoice, stats, observed>>

(* Mutant: a sent withdrawal stays in the locked column.                   *)
SendKeepsLocked(u, x) ==
  /\ onHold[u] >= x
  /\ onHold' = [onHold EXCEPT ![u] = @ - x]
  /\ net' = net - x
  /\ UNCHANGED <<dealVars, invoice, balanceVars, stats, fees, unattached, forced>>

(* A withdrawal is sent: the locked column shrinks, the money leaves.      *)
SendWithdrawal(u, x) ==
  /\ onHold[u] >= x
  /\ locked' = [locked EXCEPT ![u] = AtLeastZero(@ - x)]
  /\ onHold' = [onHold EXCEPT ![u] = @ - x]
  /\ net' = net - x
  /\ UNCHANGED <<dealVars, invoice, amount, stats, fees, unattached, forced>>

(* A withdrawal is rejected: the money goes back to the spendable column.  *)
RejectWithdrawal(u, x) ==
  /\ onHold[u] >= x
  /\ RefundPrincipal(u, x)
  /\ onHold' = [onHold EXCEPT ![u] = @ - x]
  /\ UNCHANGED <<dealVars, invoice, stats, observed>>

-----------------------------------------------------------------------------
(* create_deal_with_topup.                                                 *)

InsertDeal(d, b, s, a, c, st, paid, inv) ==
  /\ status' = [status EXCEPT ![d] = st]
  /\ terms' = [terms EXCEPT ![d] = [buyer |-> b, seller |-> s,
                                    amount |-> a, commission |-> c]]
  /\ commission_paid' = [commission_paid EXCEPT ![d] = paid]
  /\ topup' = [topup EXCEPT ![d] = inv]
  /\ UNCHANGED initiator

(* The balance covers principal and commission: no invoice is issued.      *)
CreateFunded(d, b, s, a, rate) ==
  LET c == PercentOf(a, rate) IN
  /\ IsNextDeal(d) /\ b # s
  /\ amount[b] >= a + c
  /\ InsertDeal(d, b, s, a, c, "pending_confirmation", TRUE, None)
  /\ amount' = [amount EXCEPT ![b] = @ - (a + c)]
  /\ locked' = [locked EXCEPT ![b] = @ + a]
  /\ fees' = fees + c
  /\ UNCHANGED <<invoice, stats, onHold, net, unattached, forced>>

(* It does not: the deal waits for an invoice over what is missing.  A     *)
(* provider error rolls the whole transaction back (a stuttering step).    *)
CreatePendingTopup(d, b, s, a, rate, i) ==
  LET c == PercentOf(a, rate)
      total == AtLeastZero(a - amount[b]) + c
  IN
  /\ IsNextDeal(d) /\ b # s
  /\ amount[b] < a + c
  /\ total > 0
  /\ IsNextInvoice(i)
  /\ InsertDeal(d, b, s, a, c, "pending_topup", FALSE, i)
  /\ invoice' = [invoice EXCEPT ![i] = [status |-> "pending", deal |-> d,
                                        total |-> total]]
  /\ UNCHANGED <<balanceVars, stats, onHold, observed>>

-----------------------------------------------------------------------------
(* complete_deal_topup_payment: the provider reports invoice i paid with   *)
(* p.  An expired CryptoBot invoice can still be paid.                     *)

Payable(i, p) ==
  /\ invoice[i].status \in {"pending", "expired"}
  /\ net + p <= MaxNet

(* Mutant: the payment handler does not re-read the status of the deal.    *)
PaidForAnyStatus(i, d) == invoice[i].deal = d

PaidFor(i, d) == invoice[i].deal = d /\ status[d] = "pending_topup"

MarkPaid(i) == [invoice EXCEPT ![i].status = "paid"]

(* The deal was deleted (its foreign key in the deposit is NULL): the row  *)
(* is flagged paid so that the provider stops retrying, nothing else.      *)
TopupUnlinked(i, p) ==
  /\ Payable(i, p)
  /\ invoice[i].deal = None
  /\ invoice' = MarkPaid(i)
  /\ net' = net + p
  /\ unattached' = unattached + p
  /\ UNCHANGED <<dealVars, balanceVars, stats, onHold, fees, forced>>

(* The deal is no longer waiting: the payment becomes spendable balance.   *)
TopupLate(i, p) ==
  LET d == invoice[i].deal IN
  /\ Payable(i, p)
  /\ d # None /\ ~PaidFor(i, d)
  /\ amount' = [amount EXCEPT ![terms[d].buyer] = @ + p]
  /\ invoice' = MarkPaid(i)
  /\ net' = net + p
  /\ UNCHANGED <<dealVars, locked, stats, onHold, fees, unattached, forced>>

(* Less than the commission was paid: it is credited whole, the commission *)
(* stays due and a replacement invoice j is attached.                      *)
TopupBelowCommission(i, p, d, j) ==
  LET b == terms[d].buyer IN
  /\ Payable(i, p) /\ PaidFor(i, d)
  /\ p < CommissionDue(d)
  /\ IsNextInvoice(j)
  /\ amount' = [amount EXCEPT ![b] = @ + p]
  /\ invoice' = [MarkPaid(i) EXCEPT
                   ![j] = RemainingInvoice(d, amount[b] + p, CommissionDue(d))]
  /\ topup' = [topup EXCEPT ![d] = j]
  /\ net' = net + p
  /\ UNCHANGED <<status, terms, commission_paid, initiator, locked, stats,
                 onHold, fees, unattached, forced>>

(* The commission is covered, the principal is not: the rest is credited   *)
(* and a replacement invoice asks for the missing principal only.          *)
TopupShort(i, p, d, j) ==
  LET b == terms[d].buyer
      due == CommissionDue(d)
      balance == amount[b] + (p - due)
  IN
  /\ Payable(i, p) /\ PaidFor(i, d)
  /\ p >= due
  /\ balance < terms[d].amount
  /\ IsNextInvoice(j)
  /\ amount' = [amount EXCEPT ![b] = balance]
  /\ commission_paid' = [commission_paid EXCEPT ![d] = @ \/ due > 0]
  /\ invoice' = [MarkPaid(i) EXCEPT
                   ![j] = RemainingInvoice(d, balance, 0)]
  /\ topup' = [topup EXCEPT ![d] = j]
  /\ net' = net + p
  /\ fees' = fees + due
  /\ UNCHANGED <<status, terms, initiator, locked, stats, onHold,
                 unattached, forced>>

(* Commission and principal are covered: the principal is locked and the   *)
(* deal waits for the seller.                                              *)
TopupActivates(i, p, d) ==
  LET b == terms[d].buyer
      due == CommissionDue(d)
      balance == amount[b] + (p - due)
  IN
  /\ Payable(i, p) /\ PaidFor(i, d)
  /\ p >= due
  /\ balance >= terms[d].amount
  /\ amount' = [amount EXCEPT ![b] = balance - terms[d].amount]
  /\ locked' = [locked EXCEPT ![b] = @ + terms[d].amount]
  /\ commission_paid' = [commission_paid EXCEPT ![d] = TRUE]
  /\ invoice' = MarkPaid(i)
  /\ Close(d, "pending_confirmation")
  /\ net' = net + p
  /\ fees' = fees + due
  /\ UNCHANGED <<terms, initiator, topup, stats, onHold, unattached, forced>>

-----------------------------------------------------------------------------
(* What the participants do (services_deals, through routers/deals).       *)

CancelPendingTopup(d, u) ==
  /\ u = terms[d].buyer
  /\ status[d] = "pending_topup"
  /\ ExpireTopup(d)
  /\ Close(d, "cancelled")
  /\ UNCHANGED <<terms, commission_paid, initiator, topup, balanceVars, stats,
                 onHold, observed>>

AcceptDeal(d, u) ==
  /\ u = terms[d].seller
  /\ status[d] = "pending_confirmation"
  /\ status' = [status EXCEPT ![d] = "in_progress"]
  /\ stats' = [stats EXCEPT !["total"] = Bump(@, Parties(d))]
  /\ UNCHANGED <<terms, commission_paid, initiator, topup, invoice, balanceVars,
                 onHold, observed>>

DeclineDeal(d, u) ==
  /\ u = terms[d].seller
  /\ status[d] = "pending_confirmation"
  /\ RefundPrincipal(terms[d].buyer, terms[d].amount)
  /\ Close(d, "cancelled")
  /\ UNCHANGED <<terms, commission_paid, initiator, topup, invoice, stats,
                 onHold, observed>>

FinishDeal(d, u) ==
  /\ u = terms[d].buyer
  /\ status[d] = "in_progress"
  /\ ReleaseTo(terms[d].buyer, terms[d].seller, terms[d].amount)
  /\ Close(d, "completed")
  /\ stats' = [stats EXCEPT !["success"] = Bump(@, Parties(d))]
  /\ UNCHANGED <<terms, commission_paid, initiator, topup, invoice, onHold,
                 observed>>

RequestCancel(d, u) ==
  /\ u \in Parties(d)
  /\ status[d] = "in_progress"
  /\ status' = [status EXCEPT ![d] = "pending_cancellation"]
  /\ initiator' = [initiator EXCEPT ![d] = u]
  /\ UNCHANGED <<terms, commission_paid, topup, invoice, balanceVars, stats,
                 onHold, observed>>

RevokeCancel(d, u) ==
  /\ status[d] = "pending_cancellation"
  /\ u = initiator[d]
  /\ status' = [status EXCEPT ![d] = "in_progress"]
  /\ initiator' = [initiator EXCEPT ![d] = None]
  /\ UNCHANGED <<terms, commission_paid, topup, invoice, balanceVars, stats,
                 onHold, observed>>

AcceptCancel(d, u) ==
  /\ status[d] = "pending_cancellation"
  /\ u \in Parties(d) /\ u # initiator[d]
  /\ RefundPrincipal(terms[d].buyer, terms[d].amount)
  /\ Close(d, "cancelled")
  /\ UNCHANGED <<terms, commission_paid, initiator, topup, invoice, stats,
                 onHold, observed>>

StartArbitration(d, u) ==
  /\ u \in Parties(d)
  /\ status[d] \in ArbitrationEligible
  /\ status' = [status EXCEPT ![d] = "arbitration"]
  /\ stats' = [stats EXCEPT !["arbitrage"] = Bump(@, Parties(d))]
  /\ UNCHANGED <<terms, commission_paid, initiator, topup, invoice, balanceVars,
                 onHold, observed>>

(* The two verdicts of resolve_arbitration.                                *)
ResolveForBuyer(d) ==
  /\ status[d] = "arbitration"
  /\ RefundPrincipal(terms[d].buyer, terms[d].amount)
  /\ Close(d, "resolved_for_buyer")
  /\ stats' = [stats EXCEPT !["success"] = Bump(@, {terms[d].buyer}),
                            !["failed"] = Bump(@, {terms[d].seller})]
  /\ UNCHANGED <<terms, commission_paid, initiator, topup, invoice, onHold,
                 observed>>

ResolveForSeller(d) ==
  /\ status[d] = "arbitration"
  /\ ReleaseTo(terms[d].buyer, terms[d].seller, terms[d].amount)
  /\ Close(d, "resolved_for_seller")
  /\ stats' = [stats EXCEPT !["success"] = Bump(@, {terms[d].seller}),
                            !["failed"] = Bump(@, {terms[d].buyer})]
  /\ UNCHANGED <<terms, commission_paid, initiator, topup, invoice, onHold,
                 observed>>

-----------------------------------------------------------------------------
(* Background sweeps.  Age is abstracted: any eligible row may be past its *)
(* cutoff.  A sweep closes the stale rows that no one else has locked in   *)
(* one transaction; closing them one per step reaches the same states.     *)

SweepPendingTopup(d) ==
  /\ status[d] = "pending_topup"
  /\ ExpireTopup(d)
  /\ Close(d, "cancelled_for_inactivity")
  /\ UNCHANGED <<terms, commission_paid, initiator, topup, balanceVars, stats,
                 onHold, observed>>

(* Mutant: deals that wait for a cancellation are forgotten.               *)
SweptUnconfirmed == {"pending_confirmation"}

(* The statuses sweep_inactivity selects.                                  *)
SweptStatuses == {"pending_confirmation", "pending_cancellation"}

SweepInactivity(d) ==
  /\ status[d] \in SweptStatuses
  /\ RefundPrincipal(terms[d].buyer, terms[d].amount)
  /\ Close(d, IF status[d] = "pending_confirmation"
              THEN "cancelled_for_inactivity"
              ELSE "cancelled")
  /\ UNCHANGED <<terms, commission_paid, initiator, topup, invoice, stats,
                 onHold, observed>>

SweepExpiredDeposit(i) ==
  /\ invoice[i].status = "pending"
  /\ invoice' = [invoice EXCEPT ![i].status = "expired"]
  /\ UNCHANGED <<dealVars, balanceVars, stats, onHold, observed>>

-----------------------------------------------------------------------------
(* What an admin does (routers/admin/deals).                               *)

(* Mutant: the deny-list of the terminal statuses as the guard.            *)
NotTerminal(d) == status[d] \notin Terminal \cup {"none", "deleted"}

(* _is_active_for_money_movement as a guard.                               *)
HoldsMoney(d) == status[d] \in Active

ForceRelease(d) ==
  /\ HoldsMoney(d)
  /\ ReleaseTo(terms[d].buyer, terms[d].seller, terms[d].amount)
  /\ Close(d, "resolved_for_seller")
  /\ UNCHANGED <<terms, commission_paid, initiator, topup, invoice, stats,
                 onHold, observed>>

ForceRefund(d) ==
  /\ HoldsMoney(d)
  /\ RefundPrincipal(terms[d].buyer, terms[d].amount)
  /\ Close(d, "resolved_for_buyer")
  /\ UNCHANGED <<terms, commission_paid, initiator, topup, invoice, stats,
                 onHold, observed>>

(* Mutant: the seller's share is rounded on its own.                       *)
SellerShareRounded(p, percent) == PercentOf(p, 100 - percent)

(* The seller's share is what rounding leaves of the buyer's.              *)
SellerShare(p, percent) == p - PercentOf(p, percent)

SplitDeal(d, percent) ==
  LET b == terms[d].buyer
      s == terms[d].seller
      p == terms[d].amount
  IN
  /\ HoldsMoney(d)
  /\ locked' = [locked EXCEPT ![b] = AtLeastZero(@ - p)]
  /\ amount' = [amount EXCEPT ![b] = @ + PercentOf(p, percent),
                              ![s] = @ + SellerShare(p, percent)]
  /\ Close(d, IF percent >= 50 THEN "resolved_for_buyer"
                               ELSE "resolved_for_seller")
  /\ UNCHANGED <<terms, commission_paid, initiator, topup, invoice, stats,
                 onHold, observed>>

(* The guard is only "not terminal, not already in arbitration": a deal    *)
(* still waiting for its invoice passes it.                                *)
ForceArbitration(d) ==
  /\ status[d] \in (Active \ {"arbitration"}) \cup {"pending_topup"}
  /\ status' = [status EXCEPT ![d] = "arbitration"]
  /\ forced' = [forced EXCEPT ![d] = IF status[d] = "pending_topup"
                                     THEN "unfunded" ELSE "funded"]
  /\ UNCHANGED <<terms, commission_paid, initiator, topup, invoice, balanceVars,
                 stats, onHold, net, fees, unattached>>

(* The row disappears; the deposits that pointed at it are SET NULL.  The  *)
(* model keeps terms as a memory of the deleted row.                       *)
DeleteDeal(d) ==
  /\ status[d] \notin {"none", "deleted"}
  /\ IF HoldsMoney(d)
     THEN RefundPrincipal(terms[d].buyer, terms[d].amount)
     ELSE UNCHANGED balanceVars
  /\ status' = [status EXCEPT ![d] = "deleted"]
  /\ invoice' = [i \in Invoice |->
                   IF invoice[i].deal = d
                   THEN [invoice[i] EXCEPT !.deal = None]
                   ELSE invoice[i]]
  /\ UNCHANGED <<terms, commission_paid, initiator, topup, stats, onHold,
                 observed>>

-----------------------------------------------------------------------------
(* The next-state relation.                                                *)

Border ==
  \E u \in User, x \in Transfers :
    \/ WalletCredit(u, x)
    \/ AdjustDown(u, x)
    \/ HoldWithdrawal(u, x)
    \/ SendWithdrawal(u, x)
    \/ RejectWithdrawal(u, x)

Creation ==
  \E d \in Deal, b, s \in User, a \in Amounts, rate \in Rates :
    \/ CreateFunded(d, b, s, a, rate)
    \/ \E i \in Invoice : CreatePendingTopup(d, b, s, a, rate, i)

TopupPayment ==
  \E i \in Invoice, p \in Payments :
    \/ TopupUnlinked(i, p)
    \/ TopupLate(i, p)
    \/ \E d \in Deal :
         \/ TopupActivates(i, p, d)
         \/ \E j \in Invoice : TopupBelowCommission(i, p, d, j)
         \/ \E j \in Invoice : TopupShort(i, p, d, j)

Participant ==
  \E d \in Deal, u \in User :
    \/ CancelPendingTopup(d, u)
    \/ AcceptDeal(d, u)
    \/ DeclineDeal(d, u)
    \/ FinishDeal(d, u)
    \/ RequestCancel(d, u)
    \/ RevokeCancel(d, u)
    \/ AcceptCancel(d, u)
    \/ StartArbitration(d, u)

Admin ==
  \E d \in Deal :
    \/ ResolveForBuyer(d)
    \/ ResolveForSeller(d)
    \/ ForceRelease(d)
    \/ ForceRefund(d)
    \/ ForceArbitration(d)
    \/ DeleteDeal(d)
    \/ \E percent \in Percents : SplitDeal(d, percent)

Sweep ==
  \/ \E d \in Deal : SweepPendingTopup(d)
  \/ \E d \in Deal : SweepInactivity(d)
  \/ \E i \in Invoice : SweepExpiredDeposit(i)

Next ==
  \/ Border
  \/ Creation
  \/ TopupPayment
  \/ Participant
  \/ Admin
  \/ Sweep

Spec == Init /\ [][Next]_vars

(* The sweep loops of main.py run for as long as the process does, each    *)
(* pass takes every stale row that is not locked at that moment, and no    *)
(* handler keeps a row lock for longer than its transaction: a row that    *)
(* stays eligible is eventually swept.                                     *)
SweepFairness ==
  /\ \A d \in Deal : WF_vars(SweepPendingTopup(d))
  /\ \A d \in Deal : WF_vars(SweepInactivity(d))
  /\ \A i \in Invoice : WF_vars(SweepExpiredDeposit(i))

FairSpec == Spec /\ SweepFairness

(* Operation under the discipline that no unfunded deal is forced into     *)
(* arbitration: the assumption under which the escrow promise holds.       *)
FundedOnly == \A d \in Deal : forced[d] # "unfunded"
DisciplinedNext == Next /\ FundedOnly'
DisciplinedSpec == Init /\ [][DisciplinedNext]_vars

-----------------------------------------------------------------------------
(* Properties.                                                             *)

(* What the deals of u bind of its locked column.                          *)
Held(d) == IF status[d] \in Active THEN terms[d].amount ELSE 0
HeldIn(d, u) == IF terms[d].buyer = u THEN Held(d) ELSE 0
HeldFor(u) == Total([d \in Deal |-> HeldIn(d, u)], NDeals)

Tainted(u) == \E d \in Deal : terms[d].buyer = u /\ forced[d] = "unfunded"

(* The locked column of a buyer is exactly the principals of its active    *)
(* deals plus its open withdrawals, for every buyer none of whose deals    *)
(* was forced into arbitration before it was paid for: no order of         *)
(* participant, admin, webhook and sweep steps unlocks a pot twice, leaves *)
(* one behind, or makes the clamp at zero lose money.                      *)
EscrowBacked ==
  \A u \in User : ~Tainted(u) => locked[u] = onHold[u] + HeldFor(u)

(* Money is neither created nor lost: what users hold, what the platform   *)
(* kept and what was paid for deleted deals is what came in less what went *)
(* out, as long as no unfunded deal was forced into arbitration.           *)
Conservation ==
  FundedOnly =>
    Total(amount, NUsers) + Total(locked, NUsers) + fees + unattached = net

(* What the platform has kept of a deal.                                   *)
Kept(d) == IF commission_paid[d] THEN terms[d].commission ELSE 0

(* The platform keeps the commission of a deal exactly once, at creation   *)
(* or over any series of partial payments, and never without recording it  *)
(* in commission_paid.                                                     *)
CommissionOnce == fees = Total([d \in Deal |-> Kept(d)], NDeals)

(* A deal waiting for payment always has an unpaid invoice of its own that *)
(* covers at least the commission still due, and an open invoice linked to *)
(* a deal is always that deal's current one: partial payments never leave  *)
(* two invoices open or none.  A closed deal has no open invoice, unless   *)
(* an admin forced it into arbitration while it was unpaid.                *)
InvoiceDiscipline ==
  /\ \A d \in Deal : status[d] = "pending_topup" =>
       /\ topup[d] # None
       /\ invoice[topup[d]].deal = d
       /\ invoice[topup[d]].status \in {"pending", "expired"}
       /\ invoice[topup[d]].total >= CommissionDue(d)
  /\ \A i \in Invoice, d \in Deal :
       invoice[i].status = "pending" /\ invoice[i].deal = d =>
         /\ topup[d] = i
         /\ status[d] = "pending_topup" \/ forced[d] = "unfunded"

(* The public success and failure counters of a user never exceed the      *)
(* deals the user took part in that were accepted, or that an admin forced *)
(* past acceptance.                                                        *)
OutcomesCounted ==
  \A u \in User :
    stats["success"][u] + stats["failed"][u] <=
      stats["total"][u]
      + Cardinality({d \in Deal : u \in Parties(d) /\ forced[d] # "no"})

(* A closed deal stays closed: no late payment, sweep, retry or admin      *)
(* action moves it to another status; it can only be deleted.              *)
ClosedIsFinal ==
  [][\A d \in Deal : status[d] \in Terminal =>
        status'[d] \in {status[d], "deleted"}]_vars

(* Under fair sweeps no deal stays for ever in a status that waits for one *)
(* more party, and no invoice stays open for ever.                         *)
Waiting == {"pending_topup", "pending_confirmation", "pending_cancellation"}
NothingWaitsForever ==
  /\ \A d \in Deal : status[d] \in Waiting ~> status[d] \notin Waiting
  /\ \A i \in Invoice : invoice[i].status = "pending" ~> invoice[i].status # "pending"

(* _is_active_for_money_movement (routers/admin/deals.py) says "A deal     *)
(* still has locked money iff it hasn't terminated yet": the pots of the   *)
(* active deals of a buyer are inside its locked column.                   *)
ActiveDealsHoldMoney == \A u \in User : locked[u] >= HeldFor(u)

(* delete_deal (routers/admin/deals.py) says that it "returns the full     *)
(* locked pot (including any commission share)" and that it is "the one    *)
(* path that does NOT retain commission": deleting an active deal returns  *)
(* principal and collected commission to the buyer.                        *)
DeleteReturnsCommission ==
  [][\A d \in Deal : status[d] \in Active /\ status'[d] = "deleted" =>
       amount'[terms[d].buyer] =
         amount[terms[d].buyer] + terms[d].amount
           + IF commission_paid[d] THEN terms[d].commission ELSE 0]_vars
=============================================================================
