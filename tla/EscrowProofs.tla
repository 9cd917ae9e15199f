---------------------------- MODULE EscrowProofs ----------------------------
(***************************************************************************)
(* Types, rows and the backing of the locked columns of Escrow, for every  *)
(* number of users, deals and invoices, every set of amounts and rates;    *)
(* and that its money adds up: the platform keeps each commission once,    *)
(* and nothing else goes missing.                                          *)
(***************************************************************************)
EXTENDS Escrow, MoneyTheorems

(* Where a deal that an admin forced into arbitration can be afterwards.   *)
Disputed == Terminal \cup {"arbitration", "deleted"}

(* A deal that was ever inserted has two different users as its parties;   *)
(* one that was not has no history; a deal forced into arbitration before  *)
(* it was paid for never returns to a live status.                         *)
RowsOK ==
  \A d \in Deal :
    /\ status[d] = "none" => forced[d] = "no" /\ ~commission_paid[d]
    /\ status[d] # "none" => /\ terms[d].buyer \in User
                             /\ terms[d].seller \in User
                             /\ terms[d].buyer # terms[d].seller
    /\ forced[d] = "unfunded" => status[d] \in Disputed

-----------------------------------------------------------------------------
(* Type correctness.                                                       *)

(* The initial state has the declared types.                               *)
LEMMA InitType == ASSUME Init PROVE TypeOK
BY EscrowAssumption
   DEF Init, TypeOK, Status, Term, InvoiceRow, Outcome, Terminal, Active,
       User, Deal, Invoice, None

(* The clamp leaves no negative balance.                                   *)
LEMMA ClampIsNat ==
  ASSUME NEW x \in Int
  PROVE  AtLeastZero(x) \in Nat
BY DEF AtLeastZero

(* A credit to one user stays within its type.                             *)
LEMMA CreditType ==
  ASSUME NEW f \in [User -> Nat], NEW u, NEW x \in Nat
  PROVE  [f EXCEPT ![u] = @ + x] \in [User -> Nat]
<1>1. u \in User => f[u] + x \in Nat
  OBVIOUS
<1> QED BY <1>1

(* A decrement of a locked column stays within its type.                   *)
LEMMA ClampType ==
  ASSUME NEW f \in [User -> Nat], NEW u, NEW x \in Nat
  PROVE  [f EXCEPT ![u] = AtLeastZero(@ - x)] \in [User -> Nat]
<1>1. u \in User => AtLeastZero(f[u] - x) \in Nat
  BY ClampIsNat
<1> QED BY <1>1

(* An increment of a counter does.                                         *)
LEMMA BumpType ==
  ASSUME NEW f \in [User -> Nat], NEW S
  PROVE  Bump(f, S) \in [User -> Nat]
BY DEF Bump

(* The two ways a pot leaves the locked column.                            *)
LEMMA RefundType ==
  ASSUME TypeOK, NEW u, NEW p \in Nat, RefundPrincipal(u, p)
  PROVE  amount' \in [User -> Nat] /\ locked' \in [User -> Nat]
BY CreditType, ClampType DEF TypeOK, RefundPrincipal

(* The same when the pot goes to the seller.                               *)
LEMMA ReleaseType ==
  ASSUME TypeOK, NEW u, NEW v, NEW p \in Nat, ReleaseTo(u, v, p)
  PROVE  amount' \in [User -> Nat] /\ locked' \in [User -> Nat]
BY CreditType, ClampType DEF TypeOK, ReleaseTo

(* The counters of the users.                                              *)
LEMMA StatsType ==
  ASSUME TypeOK, NEW k, NEW S
  PROVE  [stats EXCEPT ![k] = Bump(@, S)] \in [Outcome -> [User -> Nat]]
<1>1. k \in Outcome => Bump(stats[k], S) \in [User -> Nat]
  BY BumpType DEF TypeOK
<1> QED BY <1>1 DEF TypeOK

(* The status a deal ends in.                                              *)
LEMMA CloseType ==
  ASSUME TypeOK, NEW d, NEW final \in Status, Close(d, final)
  PROVE  status' \in [Deal -> Status]
BY DEF TypeOK, Close

(* What is stored about a deal, and what is computed from it.              *)
LEMMA TermType ==
  ASSUME TypeOK, NEW d \in Deal
  PROVE  /\ terms[d].buyer \in 0..NUsers
         /\ terms[d].seller \in 0..NUsers
         /\ terms[d].amount \in Nat
         /\ terms[d].commission \in Nat
         /\ CommissionDue(d) \in Nat
BY DEF TypeOK, Term, CommissionDue

(* A row written to the table of invoices.                                 *)
LEMMA InvoiceType ==
  ASSUME TypeOK, NEW i, NEW r \in InvoiceRow
  PROVE  [invoice EXCEPT ![i] = r] \in [Invoice -> InvoiceRow]
BY DEF TypeOK

(* An invoice flagged paid.                                                *)
LEMMA MarkPaidType ==
  ASSUME TypeOK, NEW i \in Invoice
  PROVE  MarkPaid(i) \in [Invoice -> InvoiceRow]
BY DEF TypeOK, MarkPaid, InvoiceRow

(* A replacement invoice.                                                  *)
LEMMA RemainingType ==
  ASSUME TypeOK, NEW d \in Deal, NEW balance \in Int, NEW due \in Nat
  PROVE  RemainingInvoice(d, balance, due) \in InvoiceRow
<1>1. AtLeastZero(terms[d].amount - balance) + due \in Nat
  BY TermType, ClampIsNat
<1>2. d \in 0..NDeals
  BY DEF Deal
<1> QED BY <1>1, <1>2 DEF RemainingInvoice, InvoiceRow

(* The open invoice of a deal that is closed.                              *)
LEMMA ExpireTopupType ==
  ASSUME TypeOK, NEW d, ExpireTopup(d)
  PROVE  invoice' \in [Invoice -> InvoiceRow]
<1>1. ASSUME NEW i \in Invoice
      PROVE  [invoice[i] EXCEPT !.status = "expired"] \in InvoiceRow
  BY DEF TypeOK, InvoiceRow
<1> QED BY <1>1 DEF TypeOK, ExpireTopup

(* The status constants the actions write.                                 *)
LEMMA StatusConstants ==
  /\ Active \subseteq Status
  /\ Terminal \subseteq Status
  /\ {"pending_topup", "pending_confirmation", "in_progress",
      "pending_cancellation", "arbitration", "cancelled", "completed",
      "resolved_for_buyer", "resolved_for_seller",
      "cancelled_for_inactivity", "none", "deleted"} \subseteq Status
BY DEF Status, Active, Terminal

(* Money crossing the border keeps the types.                              *)
LEMMA BorderType == ASSUME TypeOK, Border PROVE TypeOK'
<1> USE DEF dealVars, balanceVars, observed
<1>1. PICK u \in User, x \in Transfers :
        \/ WalletCredit(u, x)
        \/ AdjustDown(u, x)
        \/ HoldWithdrawal(u, x)
        \/ SendWithdrawal(u, x)
        \/ RejectWithdrawal(u, x)
  BY DEF Border
<1>2. x \in Nat
  BY EscrowAssumption
<1>3. CASE WalletCredit(u, x)
  BY <1>2, <1>3, CreditType DEF TypeOK, WalletCredit
<1>4. CASE AdjustDown(u, x)
  BY <1>2, <1>4 DEF TypeOK, AdjustDown
<1>5. CASE HoldWithdrawal(u, x)
  BY <1>2, <1>5 DEF TypeOK, HoldWithdrawal
<1>6. CASE SendWithdrawal(u, x)
  <2>1. locked' \in [User -> Nat]
    BY <1>2, <1>6, ClampType DEF TypeOK, SendWithdrawal
  <2>2. onHold' \in [User -> Nat]
    BY <1>2, <1>6 DEF TypeOK, SendWithdrawal
  <2> QED BY <2>1, <2>2, <1>2, <1>6 DEF TypeOK, SendWithdrawal
<1>7. CASE RejectWithdrawal(u, x)
  <2>1. amount' \in [User -> Nat] /\ locked' \in [User -> Nat]
    BY <1>2, <1>7, RefundType DEF RejectWithdrawal
  <2>2. onHold' \in [User -> Nat]
    BY <1>2, <1>7 DEF TypeOK, RejectWithdrawal
  <2> QED BY <2>1, <2>2, <1>2, <1>7 DEF TypeOK, RejectWithdrawal
<1> QED BY <1>1, <1>3, <1>4, <1>5, <1>6, <1>7

(* So does the creation of a deal.                                         *)
LEMMA CreationType == ASSUME TypeOK, Creation PROVE TypeOK'
<1> USE DEF dealVars, balanceVars, observed
<1>1. PICK d \in Deal, b \in User, s \in User, a \in Amounts, rate \in Rates :
        \/ CreateFunded(d, b, s, a, rate)
        \/ \E i \in Invoice : CreatePendingTopup(d, b, s, a, rate, i)
  BY DEF Creation
<1> DEFINE c == PercentOf(a, rate)
<1>2. a \in Nat /\ c \in Nat /\ b \in 0..NUsers /\ s \in 0..NUsers
  <2>1. a \in Nat /\ rate \in 0..100
    BY EscrowAssumption
  <2>2. c \in 0..a
    BY <2>1, PercentOfBounds
  <2> QED BY <2>1, <2>2 DEF User
<1> HIDE DEF c
<1>3. ASSUME NEW st \in Status, NEW paid \in BOOLEAN, NEW inv \in 0..NInvoices,
             InsertDeal(d, b, s, a, c, st, paid, inv)
      PROVE  /\ status' \in [Deal -> Status]
             /\ terms' \in [Deal -> Term]
             /\ commission_paid' \in [Deal -> BOOLEAN]
             /\ topup' \in [Deal -> 0..NInvoices]
             /\ initiator' \in [Deal -> 0..NUsers]
  <2>1. [buyer |-> b, seller |-> s, amount |-> a, commission |-> c] \in Term
    BY <1>2 DEF Term
  <2> QED BY <2>1, <1>3 DEF InsertDeal, TypeOK
<1>4. CASE CreateFunded(d, b, s, a, rate)
  <2> USE <1>4 DEF CreateFunded
  <2>1. InsertDeal(d, b, s, a, c, "pending_confirmation", TRUE, None)
    BY DEF c
  <2>2. None \in 0..NInvoices
    BY EscrowAssumption DEF None
  <2>3. /\ amount' = [amount EXCEPT ![b] = @ - (a + c)]
        /\ amount[b] >= a + c
        /\ locked' = [locked EXCEPT ![b] = @ + a]
        /\ fees' = fees + c
    BY DEF c
  <2>4. amount' \in [User -> Nat] /\ locked' \in [User -> Nat] /\ fees' \in Nat
    <3> HIDE <1>4 DEF CreateFunded
    <3> QED BY <2>3, <1>2 DEF TypeOK
  <2> QED BY <2>1, <2>2, <2>4, <1>3, StatusConstants DEF TypeOK
<1>5. ASSUME NEW i \in Invoice, CreatePendingTopup(d, b, s, a, rate, i)
      PROVE  TypeOK'
  <2> USE <1>5 DEF CreatePendingTopup
  <2> DEFINE row == [status |-> "pending", deal |-> d,
                     total |-> AtLeastZero(a - amount[b]) + c]
  <2>1. InsertDeal(d, b, s, a, c, "pending_topup", FALSE, i)
    BY DEF c
  <2>2. i \in 0..NInvoices /\ d \in 0..NDeals
    BY DEF Invoice, Deal
  <2>3. row \in InvoiceRow
    BY <2>2, <1>2, ClampIsNat DEF TypeOK, InvoiceRow
  <2>4. invoice' = [invoice EXCEPT ![i] = row]
    BY DEF c
  <2> HIDE DEF row
  <2>5. invoice' \in [Invoice -> InvoiceRow]
    BY <2>3, <2>4, InvoiceType
  <2> QED BY <2>1, <2>2, <2>5, <1>3, StatusConstants DEF TypeOK
<1> QED BY <1>1, <1>4, <1>5

(* The arithmetic of a payment: what is credited after the commission.     *)
LEMMA PaymentType ==
  ASSUME TypeOK, NEW i \in Invoice, NEW p \in Payments
  PROVE  /\ p \in Nat
         /\ MarkPaid(i) \in [Invoice -> InvoiceRow]
         /\ invoice[i].deal \in 0..NDeals
BY EscrowAssumption, MarkPaidType DEF TypeOK, InvoiceRow

(* So does the payment of an invoice.                                      *)
LEMMA TopupPaymentType == ASSUME TypeOK, RowsOK, TopupPayment PROVE TypeOK'
<1> USE DEF dealVars, balanceVars, observed
<1>1. PICK i \in Invoice, p \in Payments :
        \/ TopupUnlinked(i, p)
        \/ TopupLate(i, p)
        \/ \E d \in Deal :
             \/ TopupActivates(i, p, d)
             \/ \E j \in Invoice : TopupBelowCommission(i, p, d, j)
             \/ \E j \in Invoice : TopupShort(i, p, d, j)
  BY DEF TopupPayment
<1>2. p \in Nat /\ MarkPaid(i) \in [Invoice -> InvoiceRow]
  BY PaymentType
<1>3. CASE TopupUnlinked(i, p)
  BY <1>2, <1>3 DEF TypeOK, TopupUnlinked
<1>4. CASE TopupLate(i, p)
  <2>1. amount' \in [User -> Nat]
    BY <1>2, <1>4, CreditType DEF TypeOK, TopupLate
  <2> QED BY <2>1, <1>2, <1>4 DEF TypeOK, TopupLate
<1>5. ASSUME NEW d \in Deal, PaidFor(i, d)
      PROVE  /\ terms[d].buyer \in User
             /\ amount[terms[d].buyer] \in Nat
             /\ terms[d].amount \in Nat
             /\ CommissionDue(d) \in Nat
  BY <1>5, TermType DEF PaidFor, RowsOK, TypeOK
<1>6. ASSUME NEW j, NEW row \in InvoiceRow, invoice' = [MarkPaid(i) EXCEPT ![j] = row]
      PROVE  invoice' \in [Invoice -> InvoiceRow]
  BY <1>2, <1>6
<1>7. ASSUME NEW d \in Deal, NEW j \in Invoice
      PROVE  [topup EXCEPT ![d] = j] \in [Deal -> 0..NInvoices]
  BY DEF TypeOK, Invoice
<1>8. ASSUME NEW d \in Deal, TopupActivates(i, p, d)
      PROVE  TypeOK'
  <2> DEFINE b == terms[d].buyer
             due == CommissionDue(d)
  <2>1. /\ p >= due /\ amount[b] + (p - due) >= terms[d].amount
        /\ amount' = [amount EXCEPT ![b] =
                        (amount[b] + (p - due)) - terms[d].amount]
        /\ locked' = [locked EXCEPT ![b] = @ + terms[d].amount]
        /\ fees' = fees + due
        /\ b \in User /\ amount[b] \in Nat /\ terms[d].amount \in Nat /\ due \in Nat
    BY <1>5, <1>8 DEF TopupActivates
  <2> HIDE DEF b, due
  <2>2. amount' \in [User -> Nat] /\ locked' \in [User -> Nat] /\ fees' \in Nat
    BY <2>1, <1>2 DEF TypeOK
  <2>3. status' \in [Deal -> Status] /\ commission_paid' \in [Deal -> BOOLEAN]
    BY <1>8, CloseType, StatusConstants DEF TypeOK, TopupActivates
  <2> QED BY <2>2, <2>3, <1>2, <1>8 DEF TypeOK, TopupActivates
<1>9. ASSUME NEW d \in Deal, NEW j \in Invoice,
             TopupBelowCommission(i, p, d, j)
      PROVE  TypeOK'
  <2>1. PaidFor(i, d) /\ amount[terms[d].buyer] \in Nat /\ CommissionDue(d) \in Nat
    BY <1>5, <1>9 DEF TopupBelowCommission
  <2>2. amount' \in [User -> Nat]
    BY <1>2, <1>9, CreditType DEF TypeOK, TopupBelowCommission
  <2>3. RemainingInvoice(d, amount[terms[d].buyer] + p, CommissionDue(d))
          \in InvoiceRow
    BY <2>1, <1>2, RemainingType
  <2>4. invoice' \in [Invoice -> InvoiceRow]
    BY <2>3, <1>6, <1>9 DEF TopupBelowCommission
  <2> QED BY <2>2, <2>4, <1>2, <1>7, <1>9 DEF TypeOK, TopupBelowCommission
<1>10. ASSUME NEW d \in Deal, NEW j \in Invoice, TopupShort(i, p, d, j)
       PROVE  TypeOK'
  <2> DEFINE b == terms[d].buyer
             due == CommissionDue(d)
             balance == amount[b] + (p - due)
  <2>1. /\ p >= due
        /\ amount' = [amount EXCEPT ![b] = balance]
        /\ fees' = fees + due
        /\ invoice' = [MarkPaid(i) EXCEPT ![j] = RemainingInvoice(d, balance, 0)]
        /\ b \in User /\ amount[b] \in Nat /\ due \in Nat
    BY <1>5, <1>10 DEF TopupShort
  <2>2. balance \in Nat
    BY <2>1, <1>2
  <2> HIDE DEF b, due, balance
  <2>3. amount' \in [User -> Nat] /\ fees' \in Nat
    BY <2>1, <2>2 DEF TypeOK
  <2>4. RemainingInvoice(d, balance, 0) \in InvoiceRow
    BY <2>2, RemainingType
  <2>5. invoice' \in [Invoice -> InvoiceRow]
    BY <2>1, <2>4, <1>6
  <2>6. commission_paid' \in [Deal -> BOOLEAN]
    BY <1>10 DEF TypeOK, TopupShort
  <2> QED BY <2>3, <2>5, <2>6, <1>2, <1>7, <1>10 DEF TypeOK, TopupShort
<1> QED BY <1>1, <1>3, <1>4, <1>8, <1>9, <1>10

(* So does what the participants do.                                       *)
LEMMA ParticipantType == ASSUME TypeOK, Participant PROVE TypeOK'
<1> USE DEF dealVars, balanceVars, observed
<1>1. PICK d \in Deal, u \in User :
        \/ CancelPendingTopup(d, u)
        \/ AcceptDeal(d, u)
        \/ DeclineDeal(d, u)
        \/ FinishDeal(d, u)
        \/ RequestCancel(d, u)
        \/ RevokeCancel(d, u)
        \/ AcceptCancel(d, u)
        \/ StartArbitration(d, u)
  BY DEF Participant
<1>2. terms[d].amount \in Nat /\ u \in 0..NUsers /\ None \in 0..NUsers
  BY TermType, EscrowAssumption DEF User, None
<1>3. \A st \in Status : [status EXCEPT ![d] = st] \in [Deal -> Status]
  BY DEF TypeOK
<1>4. CASE CancelPendingTopup(d, u)
  <2>1. invoice' \in [Invoice -> InvoiceRow] /\ status' \in [Deal -> Status]
    BY <1>4, ExpireTopupType, CloseType, StatusConstants DEF CancelPendingTopup
  <2> QED BY <2>1, <1>4 DEF TypeOK, CancelPendingTopup
<1>5. CASE AcceptDeal(d, u)
  <2>1. stats' \in [Outcome -> [User -> Nat]] /\ status' \in [Deal -> Status]
    BY <1>3, <1>5, StatsType, StatusConstants DEF AcceptDeal
  <2> QED BY <2>1, <1>5 DEF TypeOK, AcceptDeal
<1>6. CASE DeclineDeal(d, u)
  <2>1. /\ amount' \in [User -> Nat] /\ locked' \in [User -> Nat]
        /\ status' \in [Deal -> Status]
    BY <1>2, <1>6, RefundType, CloseType, StatusConstants DEF DeclineDeal
  <2> QED BY <2>1, <1>6 DEF TypeOK, DeclineDeal
<1>7. CASE FinishDeal(d, u)
  <2>1. /\ amount' \in [User -> Nat] /\ locked' \in [User -> Nat]
        /\ status' \in [Deal -> Status]
        /\ stats' \in [Outcome -> [User -> Nat]]
    BY <1>2, <1>7, ReleaseType, CloseType, StatsType, StatusConstants
       DEF FinishDeal
  <2> QED BY <2>1, <1>7 DEF TypeOK, FinishDeal
<1>8. CASE RequestCancel(d, u)
  <2>1. status' \in [Deal -> Status]
    BY <1>3, <1>8, StatusConstants DEF RequestCancel
  <2> QED BY <2>1, <1>2, <1>8 DEF TypeOK, RequestCancel
<1>9. CASE RevokeCancel(d, u)
  <2>1. status' \in [Deal -> Status]
    BY <1>3, <1>9, StatusConstants DEF RevokeCancel
  <2> QED BY <2>1, <1>2, <1>9 DEF TypeOK, RevokeCancel
<1>10. CASE AcceptCancel(d, u)
  <2>1. /\ amount' \in [User -> Nat] /\ locked' \in [User -> Nat]
        /\ status' \in [Deal -> Status]
    BY <1>2, <1>10, RefundType, CloseType, StatusConstants DEF AcceptCancel
  <2> QED BY <2>1, <1>10 DEF TypeOK, AcceptCancel
<1>11. CASE StartArbitration(d, u)
  <2>1. stats' \in [Outcome -> [User -> Nat]] /\ status' \in [Deal -> Status]
    BY <1>3, <1>11, StatsType, StatusConstants DEF StartArbitration
  <2> QED BY <2>1, <1>11 DEF TypeOK, StartArbitration
<1> QED
  BY <1>1, <1>4, <1>5, <1>6, <1>7, <1>8, <1>9, <1>10, <1>11

(* Two counters change at once when a dispute is decided.                  *)
LEMMA VerdictStatsType ==
  ASSUME TypeOK, NEW S, NEW T,
         stats' = [stats EXCEPT !["success"] = Bump(@, S),
                                !["failed"] = Bump(@, T)]
  PROVE  stats' \in [Outcome -> [User -> Nat]]
<1>1. /\ Bump(stats["success"], S) \in [User -> Nat]
      /\ Bump(stats["failed"], T) \in [User -> Nat]
  BY BumpType DEF TypeOK, Outcome
<1> QED BY <1>1 DEF TypeOK

(* So does what an admin does.                                             *)
LEMMA AdminType == ASSUME TypeOK, Admin PROVE TypeOK'
<1> USE DEF dealVars, balanceVars, observed
<1>1. PICK d \in Deal :
        \/ ResolveForBuyer(d)
        \/ ResolveForSeller(d)
        \/ ForceRelease(d)
        \/ ForceRefund(d)
        \/ ForceArbitration(d)
        \/ DeleteDeal(d)
        \/ \E percent \in Percents : SplitDeal(d, percent)
  BY DEF Admin
<1>2. terms[d].amount \in Nat
  BY TermType
<1>3. CASE ResolveForBuyer(d)
  <2>1. /\ amount' \in [User -> Nat] /\ locked' \in [User -> Nat]
        /\ status' \in [Deal -> Status]
        /\ stats' \in [Outcome -> [User -> Nat]]
    BY <1>2, <1>3, RefundType, CloseType, VerdictStatsType, StatusConstants
       DEF ResolveForBuyer
  <2> QED BY <2>1, <1>3 DEF TypeOK, ResolveForBuyer
<1>4. CASE ResolveForSeller(d)
  <2>1. /\ amount' \in [User -> Nat] /\ locked' \in [User -> Nat]
        /\ status' \in [Deal -> Status]
        /\ stats' \in [Outcome -> [User -> Nat]]
    BY <1>2, <1>4, ReleaseType, CloseType, VerdictStatsType, StatusConstants
       DEF ResolveForSeller
  <2> QED BY <2>1, <1>4 DEF TypeOK, ResolveForSeller
<1>5. CASE ForceRelease(d)
  <2>1. /\ amount' \in [User -> Nat] /\ locked' \in [User -> Nat]
        /\ status' \in [Deal -> Status]
    BY <1>2, <1>5, ReleaseType, CloseType, StatusConstants DEF ForceRelease
  <2> QED BY <2>1, <1>5 DEF TypeOK, ForceRelease
<1>6. CASE ForceRefund(d)
  <2>1. /\ amount' \in [User -> Nat] /\ locked' \in [User -> Nat]
        /\ status' \in [Deal -> Status]
    BY <1>2, <1>6, RefundType, CloseType, StatusConstants DEF ForceRefund
  <2> QED BY <2>1, <1>6 DEF TypeOK, ForceRefund
<1>7. CASE ForceArbitration(d)
  <2>1. status' \in [Deal -> Status]
    BY <1>7, StatusConstants DEF TypeOK, ForceArbitration
  <2> QED BY <2>1, <1>7 DEF TypeOK, ForceArbitration
<1>8. CASE DeleteDeal(d)
  <2>1. amount' \in [User -> Nat] /\ locked' \in [User -> Nat]
    BY <1>2, <1>8, RefundType DEF TypeOK, DeleteDeal
  <2>2. status' \in [Deal -> Status]
    BY <1>8, StatusConstants DEF TypeOK, DeleteDeal
  <2>3. ASSUME NEW i \in Invoice
        PROVE  [invoice[i] EXCEPT !.deal = None] \in InvoiceRow
    <3>1. None \in 0..NDeals
      BY EscrowAssumption DEF None
    <3>2. invoice[i] \in InvoiceRow
      BY DEF TypeOK
    <3> QED BY <3>1, <3>2 DEF InvoiceRow
  <2>4. invoice' \in [Invoice -> InvoiceRow]
    BY <2>3, <1>8 DEF TypeOK, DeleteDeal
  <2> QED BY <2>1, <2>2, <2>4, <1>8 DEF TypeOK, DeleteDeal
<1>9. ASSUME NEW percent \in Percents, SplitDeal(d, percent)
      PROVE  TypeOK'
  <2> DEFINE b == terms[d].buyer
             s == terms[d].seller
             x == PercentOf(terms[d].amount, percent)
             y == SellerShare(terms[d].amount, percent)
  <2>1. x \in Nat /\ y \in Nat
    <3>1. percent \in 0..100
      BY EscrowAssumption
    <3>2. x \in 0..terms[d].amount
      BY <3>1, <1>2, PercentOfBounds
    <3> QED BY <3>2, <1>2 DEF SellerShare
  <2>2. /\ locked' = [locked EXCEPT ![b] = AtLeastZero(@ - terms[d].amount)]
        /\ amount' = [amount EXCEPT ![b] = @ + x, ![s] = @ + y]
    BY <1>9 DEF SplitDeal
  <2> HIDE DEF b, s, x, y
  <2>3. locked' \in [User -> Nat]
    BY <2>2, <1>2, ClampType DEF TypeOK
  <2>4. amount' \in [User -> Nat]
    <3>1. /\ b \in User => amount[b] + x \in Nat
          /\ s \in User => amount[s] + y \in Nat
      BY <2>1 DEF TypeOK
    <3> QED BY <3>1, <2>2 DEF TypeOK
  <2>5. status' \in [Deal -> Status]
    BY <1>9, CloseType, StatusConstants DEF SplitDeal
  <2> QED BY <2>3, <2>4, <2>5, <1>9 DEF TypeOK, SplitDeal
<1> QED BY <1>1, <1>3, <1>4, <1>5, <1>6, <1>7, <1>8, <1>9

(* So do the sweeps.                                                       *)
LEMMA SweepType == ASSUME TypeOK, Sweep PROVE TypeOK'
<1> USE DEF dealVars, balanceVars, observed
<1>1. ASSUME NEW d \in Deal, SweepPendingTopup(d)
      PROVE  TypeOK'
  <2>1. invoice' \in [Invoice -> InvoiceRow] /\ status' \in [Deal -> Status]
    BY <1>1, ExpireTopupType, CloseType, StatusConstants DEF SweepPendingTopup
  <2> QED BY <2>1, <1>1 DEF TypeOK, SweepPendingTopup
<1>2. ASSUME NEW d \in Deal, SweepInactivity(d)
      PROVE  TypeOK'
  <2>1. amount' \in [User -> Nat] /\ locked' \in [User -> Nat]
    BY <1>2, TermType, RefundType DEF SweepInactivity
  <2>2. status' \in [Deal -> Status]
    BY <1>2, StatusConstants DEF TypeOK, SweepInactivity, Close
  <2> QED BY <2>1, <2>2, <1>2 DEF TypeOK, SweepInactivity
<1>3. ASSUME NEW i \in Invoice, SweepExpiredDeposit(i)
      PROVE  TypeOK'
  <2>1. invoice' \in [Invoice -> InvoiceRow]
    BY <1>3 DEF TypeOK, InvoiceRow, SweepExpiredDeposit
  <2> QED BY <2>1, <1>3 DEF TypeOK, SweepExpiredDeposit
<1> QED BY <1>1, <1>2, <1>3 DEF Sweep

-----------------------------------------------------------------------------
(* The rows of deals.                                                      *)

(* No row exists at first.                                                 *)
LEMMA InitRows == ASSUME Init PROVE RowsOK
BY DEF Init, RowsOK

(* A step that moves an existing deal from one status to another, and not  *)
(* out of Disputed, keeps RowsOK.                                          *)
LEMMA RowsMove ==
  ASSUME TypeOK, RowsOK, NEW d \in Deal, NEW x,
         status[d] # "none", x # "none",
         status[d] \in Disputed => x \in Disputed,
         status' = [status EXCEPT ![d] = x],
         UNCHANGED <<terms, forced>>,
         \A e \in Deal \ {d} : commission_paid'[e] = commission_paid[e]
  PROVE  RowsOK'
BY DEF TypeOK, RowsOK, Disputed, Terminal

(* So does a step that leaves every deal in its status.                    *)
LEMMA RowsStay ==
  ASSUME RowsOK, UNCHANGED <<status, terms, forced>>,
         \A d \in Deal : status[d] = "none" =>
                           commission_paid'[d] = commission_paid[d]
  PROVE  RowsOK'
BY DEF RowsOK, Disputed

(* So does the insertion of a row.                                         *)
LEMMA CreationRows == ASSUME TypeOK, RowsOK, Creation PROVE RowsOK'
<1>1. PICK d \in Deal, b \in User, s \in User, a \in Amounts, rate \in Rates :
        \/ CreateFunded(d, b, s, a, rate)
        \/ \E i \in Invoice : CreatePendingTopup(d, b, s, a, rate, i)
  BY DEF Creation
<1> DEFINE Inserted(st, paid, inv) ==
             InsertDeal(d, b, s, a, PercentOf(a, rate), st, paid, inv)
<1>2. status[d] = "none" /\ b # s /\ UNCHANGED forced
  BY <1>1 DEF CreateFunded, CreatePendingTopup, IsNextDeal, observed
<1>3. \/ Inserted("pending_confirmation", TRUE, None)
      \/ \E i \in Invoice : Inserted("pending_topup", FALSE, i)
  BY <1>1 DEF CreateFunded, CreatePendingTopup
<1>4. PICK st \in {"pending_topup", "pending_confirmation"} :
        /\ status' = [status EXCEPT ![d] = st]
        /\ terms' = [terms EXCEPT ![d] = [buyer |-> b, seller |-> s, amount |-> a,
                                         commission |-> PercentOf(a, rate)]]
  BY <1>3 DEF InsertDeal
<1>5. \A e \in Deal : e # d => commission_paid'[e] = commission_paid[e]
  BY <1>3 DEF InsertDeal, TypeOK
<1> QED BY <1>2, <1>4, <1>5 DEF TypeOK, RowsOK, Disputed, Terminal

(* So does the payment of an invoice.                                      *)
LEMMA TopupPaymentRows == ASSUME TypeOK, RowsOK, TopupPayment PROVE RowsOK'
<1> USE DEF dealVars, observed
<1>1. PICK i \in Invoice, p \in Payments :
        \/ TopupUnlinked(i, p)
        \/ TopupLate(i, p)
        \/ \E d \in Deal :
             \/ TopupActivates(i, p, d)
             \/ \E j \in Invoice : TopupBelowCommission(i, p, d, j)
             \/ \E j \in Invoice : TopupShort(i, p, d, j)
  BY DEF TopupPayment
<1>2. CASE TopupUnlinked(i, p) \/ TopupLate(i, p)
  BY <1>2, RowsStay DEF TopupUnlinked, TopupLate
<1>3. ASSUME NEW d \in Deal, TopupActivates(i, p, d)
      PROVE  RowsOK'
  <2>1. /\ status[d] = "pending_topup"
        /\ status' = [status EXCEPT ![d] = "pending_confirmation"]
        /\ commission_paid' = [commission_paid EXCEPT ![d] = TRUE]
        /\ UNCHANGED <<terms, forced>>
    BY <1>3 DEF TopupActivates, PaidFor, Close
  <2>2. status[d] \notin Disputed
    BY <2>1 DEF Disputed, Terminal
  <2> QED BY <2>1, <2>2, RowsMove DEF TypeOK
<1>4. ASSUME NEW d \in Deal, NEW j \in Invoice,
             TopupBelowCommission(i, p, d, j) \/ TopupShort(i, p, d, j)
      PROVE  RowsOK'
  BY <1>4, RowsStay DEF TypeOK, TopupBelowCommission, TopupShort, PaidFor
<1> QED BY <1>1, <1>2, <1>3, <1>4

(* The participants, the admin and the sweeps move one deal at a time; a   *)
(* disputed one stays disputed.                                            *)
LEMMA ParticipantRows == ASSUME TypeOK, RowsOK, Participant PROVE RowsOK'
<1>1. PICK d \in Deal, u \in User :
        \/ CancelPendingTopup(d, u)
        \/ AcceptDeal(d, u)
        \/ DeclineDeal(d, u)
        \/ FinishDeal(d, u)
        \/ RequestCancel(d, u)
        \/ RevokeCancel(d, u)
        \/ AcceptCancel(d, u)
        \/ StartArbitration(d, u)
  BY DEF Participant
<1>2. PICK x \in {"cancelled", "in_progress", "completed",
                  "pending_cancellation", "arbitration"} :
        /\ status' = [status EXCEPT ![d] = x]
        /\ status[d] \in {"pending_topup", "pending_confirmation",
                          "in_progress", "pending_cancellation"}
        /\ UNCHANGED <<terms, forced, commission_paid>>
  BY <1>1 DEF CancelPendingTopup, AcceptDeal, DeclineDeal, FinishDeal,
              RequestCancel, RevokeCancel, AcceptCancel, StartArbitration,
              ArbitrationEligible, Close, observed
<1>3. status[d] # "none" /\ x # "none" /\ status[d] \notin Disputed
  BY <1>2 DEF Disputed, Terminal
<1> QED BY <1>2, <1>3, RowsMove

(* The decisions of an admin keep RowsOK.                                  *)
LEMMA AdminRows == ASSUME TypeOK, RowsOK, Admin PROVE RowsOK'
<1>1. PICK d \in Deal :
        \/ ResolveForBuyer(d)
        \/ ResolveForSeller(d)
        \/ ForceRelease(d)
        \/ ForceRefund(d)
        \/ ForceArbitration(d)
        \/ DeleteDeal(d)
        \/ \E percent \in Percents : SplitDeal(d, percent)
  BY DEF Admin
<1>2. CASE ForceArbitration(d)
  BY <1>2 DEF TypeOK, RowsOK, ForceArbitration, Active, Disputed, Terminal
<1>3. CASE ~ForceArbitration(d)
  <2>1. PICK x \in {"resolved_for_buyer", "resolved_for_seller", "deleted"} :
          /\ status' = [status EXCEPT ![d] = x]
          /\ status[d] # "none"
          /\ UNCHANGED <<terms, forced, commission_paid>>
    BY <1>1, <1>3 DEF ResolveForBuyer, ResolveForSeller, ForceRelease,
         ForceRefund, DeleteDeal, SplitDeal, HoldsMoney, Active, Close, observed
  <2>2. x # "none" /\ x \in Disputed
    BY <2>1 DEF Disputed, Terminal
  <2> QED BY <2>1, <2>2, RowsMove
<1> QED BY <1>2, <1>3

(* The sweeps keep RowsOK.                                                 *)
LEMMA SweepRows == ASSUME TypeOK, RowsOK, Sweep PROVE RowsOK'
<1>1. ASSUME NEW d \in Deal, SweepPendingTopup(d) \/ SweepInactivity(d)
      PROVE  RowsOK'
  <2>1. PICK x \in {"cancelled_for_inactivity", "cancelled"} :
          /\ status' = [status EXCEPT ![d] = x]
          /\ status[d] \in {"pending_topup"} \cup SweptStatuses
          /\ UNCHANGED <<terms, forced, commission_paid>>
    BY <1>1 DEF SweepPendingTopup, SweepInactivity, Close, observed
  <2>2. status[d] # "none" /\ x # "none" /\ x \in Disputed
    BY <2>1 DEF Disputed, Terminal, SweptStatuses
  <2> QED BY <2>1, <2>2, RowsMove
<1>2. ASSUME NEW i \in Invoice, SweepExpiredDeposit(i)
      PROVE  RowsOK'
  BY <1>2, RowsStay DEF SweepExpiredDeposit, dealVars, observed
<1> QED BY <1>1, <1>2 DEF Sweep

-----------------------------------------------------------------------------
(* The theorem: TypeOK is inductive together with RowsOK, without which a  *)
(* payment might be credited to a buyer that does not exist.               *)

Rows == TypeOK /\ RowsOK

(* One step keeps the types and the rows.                                  *)
LEMMA RowsStep == ASSUME Rows, [Next]_vars PROVE Rows'
<1>1. CASE Next
  <2>1. CASE Border
    <3>1. UNCHANGED <<status, terms, forced, commission_paid>>
      BY <2>1 DEF Border, WalletCredit, AdjustDown, HoldWithdrawal,
           SendWithdrawal, RejectWithdrawal, dealVars, observed
    <3> QED BY <2>1, <3>1, BorderType, RowsStay DEF Rows
  <2>2. CASE Creation
    BY <2>2, CreationType, CreationRows DEF Rows
  <2>3. CASE TopupPayment
    BY <2>3, TopupPaymentType, TopupPaymentRows DEF Rows
  <2>4. CASE Participant
    BY <2>4, ParticipantType, ParticipantRows DEF Rows
  <2>5. CASE Admin
    BY <2>5, AdminType, AdminRows DEF Rows
  <2>6. CASE Sweep
    BY <2>6, SweepType, SweepRows DEF Rows
  <2> QED BY <1>1, <2>1, <2>2, <2>3, <2>4, <2>5, <2>6 DEF Next
<1>2. CASE UNCHANGED vars
  <2>1. UNCHANGED <<status, terms, commission_paid, initiator, topup, invoice,
                    amount, locked, stats, onHold, net, fees, unattached, forced>>
    BY <1>2 DEF vars, dealVars, balanceVars, observed
  <2>2. TypeOK'
    BY <2>1 DEF Rows, TypeOK
  <2> QED BY <2>1, <2>2, RowsStay DEF Rows
<1> QED BY <1>1, <1>2

(* The types and the rows are right in every reachable state.              *)
THEOREM RowsCorrect == Spec => []Rows
<1>1. Init => Rows
  BY InitType, InitRows DEF Rows
<1> QED BY <1>1, RowsStep, PTL DEF Spec

(* Every column keeps its type whatever the numbers of users, deals and    *)
(* invoices: no balance of services_deals, routers/admin/deals and the     *)
(* payment handlers is ever negative, and no row refers to a missing one.  *)
THEOREM TypeCorrect == Spec => []TypeOK
<1>1. Rows => TypeOK
  BY DEF Rows
<1> QED BY <1>1, RowsCorrect, PTL

-----------------------------------------------------------------------------
(* What the deals of a user bind.                                          *)

(* A deal binds a natural number of units of a user.                       *)
LEMMA HeldType ==
  ASSUME TypeOK, NEW u
  PROVE  /\ NDeals \in Nat
         /\ \A d \in Deal : HeldIn(d, u) \in Nat
         /\ [d \in Deal |-> HeldIn(d, u)] \in [1..NDeals -> Nat]
         /\ [d \in Deal |-> HeldIn(d, u)] \in [1..NDeals -> Int]
<1>1. NDeals \in Nat
  BY EscrowAssumption
<1>2. ASSUME NEW d \in Deal
      PROVE  HeldIn(d, u) \in Nat
  BY TermType DEF HeldIn, Held
<1> QED BY <1>1, <1>2 DEF Deal

(* No deal binds more than all deals together.                             *)
LEMMA HeldForCovers ==
  ASSUME TypeOK, NEW u
  PROVE  /\ HeldFor(u) \in Nat
         /\ \A d \in Deal : HeldIn(d, u) <= HeldFor(u)
<1> DEFINE f == [d \in Deal |-> HeldIn(d, u)]
<1>1. NDeals \in Nat /\ f \in [1..NDeals -> Nat]
  BY HeldType
<1>2. \A d \in Deal : f[d] = HeldIn(d, u) /\ d \in 1..NDeals
  BY DEF Deal
<1>3. HeldFor(u) = Total(f, NDeals)
  BY DEF HeldFor
<1> HIDE DEF f
<1>4. Total(f, NDeals) \in Nat /\ \A d \in 1..NDeals : f[d] <= Total(f, NDeals)
  BY <1>1, TotalCovers
<1> QED BY <1>2, <1>3, <1>4

(* When only deal d changes what it binds, the sum changes by as much.     *)
LEMMA HeldForUpdate ==
  ASSUME TypeOK, TypeOK', NEW u, NEW d \in Deal,
         \A e \in Deal \ {d} : HeldIn(e, u)' = HeldIn(e, u)
  PROVE  HeldFor(u)' = HeldFor(u) + (HeldIn(d, u)' - HeldIn(d, u))
<1> DEFINE f == [e \in Deal |-> HeldIn(e, u)]
           g == [e \in Deal |-> HeldIn(e, u)']
<1>1. NDeals \in Nat /\ f \in [1..NDeals -> Int]
  BY HeldType
<1>2. g \in [1..NDeals -> Int]
  <2>1. ASSUME NEW e \in Deal
        PROVE  HeldIn(e, u)' \in Int
    <3>1. terms'[e].amount \in Nat
      BY DEF TypeOK, Term
    <3> QED BY <3>1 DEF HeldIn, Held
  <2> QED BY <2>1 DEF Deal
<1>3. HeldFor(u) = Total(f, NDeals) /\ HeldFor(u)' = Total(g, NDeals)
  BY DEF HeldFor
<1>4. /\ d \in 1..NDeals
      /\ \A e \in 1..NDeals : e # d => g[e] = f[e]
      /\ f[d] = HeldIn(d, u) /\ g[d] = HeldIn(d, u)'
  BY DEF Deal
<1> HIDE DEF f, g
<1>5. Total(g, NDeals) = Total(f, NDeals) + (g[d] - f[d])
  BY <1>1, <1>2, <1>4, TotalUpdate
<1> QED BY <1>3, <1>4, <1>5

(* When no deal changes what it binds, neither does the sum.               *)
LEMMA HeldForSame ==
  ASSUME TypeOK, NEW u,
         \A e \in Deal : HeldIn(e, u)' = HeldIn(e, u)
  PROVE  HeldFor(u)' = HeldFor(u)
<1>1. [e \in Deal |-> HeldIn(e, u)'] = [e \in Deal |-> HeldIn(e, u)]
  OBVIOUS
<1> QED BY <1>1 DEF HeldFor

-----------------------------------------------------------------------------
(* EscrowBacked.                                                           *)

(* A step that neither locks nor unlocks, and leaves what the deals of     *)
(* untainted users bind as it is, keeps EscrowBacked.                      *)
LEMMA BackedStay ==
  ASSUME TypeOK, EscrowBacked, UNCHANGED <<locked, onHold>>,
         \A u \in User : ~Tainted(u)' =>
           /\ ~Tainted(u)
           /\ \A d \in Deal : HeldIn(d, u)' = HeldIn(d, u)
  PROVE  EscrowBacked'
<1>1. ASSUME NEW u \in User, ~Tainted(u)'
      PROVE  locked'[u] = onHold'[u] + HeldFor(u)'
  BY <1>1, HeldForSame DEF EscrowBacked
<1> QED BY <1>1 DEF EscrowBacked

(* A step that closes an active deal and takes its principal out of the    *)
(* buyer's locked column keeps EscrowBacked: the column holds at least the *)
(* principal, so the clamp at zero does not bite.                          *)
LEMMA BackedClose ==
  ASSUME TypeOK, RowsOK, TypeOK', EscrowBacked,
         NEW d \in Deal, NEW x, x \notin Active,
         status[d] \in Active,
         status' = [status EXCEPT ![d] = x],
         UNCHANGED <<terms, onHold, forced>>,
         locked' = [locked EXCEPT ![terms[d].buyer] =
                                     AtLeastZero(@ - terms[d].amount)]
  PROVE  EscrowBacked'
<1> DEFINE b == terms[d].buyer
           p == terms[d].amount
<1>1. b \in User /\ p \in Nat
  BY TermType DEF RowsOK, Active
<1>2. ASSUME NEW u \in User, ~Tainted(u)'
      PROVE  locked'[u] = onHold'[u] + HeldFor(u)'
  <2>1. ~Tainted(u) /\ locked[u] = onHold[u] + HeldFor(u)
    BY <1>2 DEF Tainted, EscrowBacked
  <2>2. /\ onHold[u] \in Nat /\ locked[u] \in Nat /\ onHold'[u] = onHold[u]
        /\ HeldFor(u) \in Nat /\ HeldIn(d, u) <= HeldFor(u)
    BY HeldForCovers DEF TypeOK
  <2>3. HeldFor(u)' = HeldFor(u) + (HeldIn(d, u)' - HeldIn(d, u))
    <3>1. \A e \in Deal \ {d} : HeldIn(e, u)' = HeldIn(e, u)
      BY DEF HeldIn, Held, TypeOK
    <3> QED BY <3>1, HeldForUpdate
  <2>4. HeldIn(d, u)' = 0 /\ HeldIn(d, u) = IF u = b THEN p ELSE 0
    BY DEF HeldIn, Held, TypeOK
  <2>5. locked'[u] = IF u = b THEN AtLeastZero(locked[u] - p) ELSE locked[u]
    BY <1>1 DEF TypeOK
  <2> HIDE DEF b, p
  <2> QED BY <1>1, <2>1, <2>2, <2>3, <2>4, <2>5 DEF AtLeastZero
<1> QED BY <1>2 DEF EscrowBacked

(* A step that puts the principal of a deal that bound nothing into the    *)
(* buyer's locked column and makes the deal active keeps EscrowBacked.     *)
LEMMA BackedOpen ==
  ASSUME TypeOK, TypeOK', EscrowBacked,
         NEW d \in Deal, NEW b \in User, NEW p \in Nat,
         status[d] \notin Active, status'[d] \in Active,
         terms'[d].buyer = b, terms'[d].amount = p,
         forced[d] # "unfunded",
         \A e \in Deal \ {d} : status'[e] = status[e] /\ terms'[e] = terms[e],
         UNCHANGED <<onHold, forced>>,
         locked' = [locked EXCEPT ![b] = @ + p]
  PROVE  EscrowBacked'
<1>1. ASSUME NEW u \in User, ~Tainted(u)'
      PROVE  locked'[u] = onHold'[u] + HeldFor(u)'
  <2>1. ~Tainted(u) /\ locked[u] = onHold[u] + HeldFor(u)
    BY <1>1 DEF Tainted, EscrowBacked
  <2>2. /\ onHold[u] \in Nat /\ locked[u] \in Nat /\ onHold'[u] = onHold[u]
        /\ HeldFor(u) \in Nat
    BY HeldForCovers DEF TypeOK
  <2>3. HeldFor(u)' = HeldFor(u) + (HeldIn(d, u)' - HeldIn(d, u))
    <3>1. \A e \in Deal \ {d} : HeldIn(e, u)' = HeldIn(e, u)
      BY DEF HeldIn, Held
    <3> QED BY <3>1, HeldForUpdate
  <2>4. HeldIn(d, u) = 0 /\ HeldIn(d, u)' = IF u = b THEN p ELSE 0
    BY DEF HeldIn, Held
  <2>5. locked'[u] = IF u = b THEN locked[u] + p ELSE locked[u]
    BY DEF TypeOK
  <2> QED BY <2>1, <2>2, <2>3, <2>4, <2>5
<1> QED BY <1>1 DEF EscrowBacked

(* Money crossing the border: a withdrawal binds what it locks.            *)
LEMMA BorderBacked ==
  ASSUME Rows, Border, EscrowBacked PROVE EscrowBacked'
<1> USE DEF dealVars, balanceVars, observed
<1>1. PICK u \in User, x \in Transfers :
        \/ WalletCredit(u, x)
        \/ AdjustDown(u, x)
        \/ HoldWithdrawal(u, x)
        \/ SendWithdrawal(u, x)
        \/ RejectWithdrawal(u, x)
  BY DEF Border
<1>2. x \in Nat /\ TypeOK
  BY EscrowAssumption DEF Rows
<1>3. UNCHANGED <<status, terms, forced>>
  BY <1>1 DEF WalletCredit, AdjustDown, HoldWithdrawal, SendWithdrawal,
              RejectWithdrawal
<1>4. ASSUME NEW v \in User, ~Tainted(v)'
      PROVE  locked'[v] = onHold'[v] + HeldFor(v)'
  <2>1. locked[v] = onHold[v] + HeldFor(v) /\ HeldFor(v)' = HeldFor(v)
    <3>1. ~Tainted(v) /\ \A d \in Deal : HeldIn(d, v)' = HeldIn(d, v)
      BY <1>3, <1>4 DEF Tainted, HeldIn, Held
    <3> QED BY <3>1, <1>2, HeldForSame DEF EscrowBacked
  <2>2. locked[v] \in Nat /\ onHold[v] \in Nat /\ HeldFor(v) \in Nat
    BY <1>2, HeldForCovers DEF TypeOK
  <2>3. CASE WalletCredit(u, x) \/ AdjustDown(u, x)
    BY <2>1, <2>3 DEF WalletCredit, AdjustDown
  <2>4. CASE HoldWithdrawal(u, x)
    <3>1. /\ locked'[v] = IF v = u THEN locked[v] + x ELSE locked[v]
          /\ onHold'[v] = IF v = u THEN onHold[v] + x ELSE onHold[v]
      BY <1>2, <2>4 DEF HoldWithdrawal, TypeOK
    <3> QED BY <1>2, <2>1, <2>2, <3>1
  <2>5. CASE SendWithdrawal(u, x) \/ RejectWithdrawal(u, x)
    <3>1. /\ onHold[u] >= x
          /\ locked'[v] = IF v = u THEN AtLeastZero(locked[v] - x) ELSE locked[v]
          /\ onHold'[v] = IF v = u THEN onHold[v] - x ELSE onHold[v]
      BY <1>2, <2>5 DEF SendWithdrawal, RejectWithdrawal, RefundPrincipal, TypeOK
    <3> QED BY <1>2, <2>1, <2>2, <3>1 DEF AtLeastZero
  <2> QED BY <1>1, <2>3, <2>4, <2>5
<1> QED BY <1>4 DEF EscrowBacked

(* The creation of a deal binds its principal, or nothing yet.             *)
LEMMA CreationBacked ==
  ASSUME Rows, Rows', Creation, EscrowBacked PROVE EscrowBacked'
<1> USE DEF balanceVars, observed, Rows
<1>1. PICK d \in Deal, b \in User, s \in User, a \in Amounts, rate \in Rates :
        \/ CreateFunded(d, b, s, a, rate)
        \/ \E i \in Invoice : CreatePendingTopup(d, b, s, a, rate, i)
  BY DEF Creation
<1>2. a \in Nat
  BY EscrowAssumption
<1>3. status[d] = "none" /\ forced[d] # "unfunded"
  BY <1>1 DEF CreateFunded, CreatePendingTopup, IsNextDeal, RowsOK
<1>4. CASE CreateFunded(d, b, s, a, rate)
  <2>1. /\ status'[d] = "pending_confirmation"
        /\ terms'[d].buyer = b /\ terms'[d].amount = a
        /\ \A e \in Deal \ {d} : status'[e] = status[e] /\ terms'[e] = terms[e]
    BY <1>4 DEF CreateFunded, InsertDeal, TypeOK
  <2>2. status[d] \notin Active /\ status'[d] \in Active
    BY <1>3, <2>1 DEF Active
  <2> QED BY <1>2, <1>3, <1>4, <2>1, <2>2, BackedOpen DEF CreateFunded
<1>5. ASSUME NEW i \in Invoice, CreatePendingTopup(d, b, s, a, rate, i)
      PROVE  EscrowBacked'
  <2>1. /\ status' = [status EXCEPT ![d] = "pending_topup"]
        /\ \A e \in Deal \ {d} : terms'[e] = terms[e]
        /\ UNCHANGED <<locked, onHold, forced>>
    BY <1>5 DEF CreatePendingTopup, InsertDeal, TypeOK
  <2>2. ASSUME NEW u \in User, NEW e \in Deal
        PROVE  HeldIn(e, u)' = HeldIn(e, u)
    BY <1>3, <2>1 DEF HeldIn, Held, Active, TypeOK
  <2>3. ASSUME NEW u \in User, ~Tainted(u)'
        PROVE  ~Tainted(u)
    BY <1>3, <2>1, <2>3 DEF Tainted
  <2> QED BY <2>1, <2>2, <2>3, BackedStay
<1> QED BY <1>1, <1>4, <1>5

(* The payment of an invoice binds the principal when it activates the     *)
(* deal, and nothing otherwise.                                            *)
LEMMA TopupPaymentBacked ==
  ASSUME Rows, Rows', TopupPayment, EscrowBacked PROVE EscrowBacked'
<1> USE DEF dealVars, balanceVars, observed, Rows
<1>1. PICK i \in Invoice, p \in Payments :
        \/ TopupUnlinked(i, p)
        \/ TopupLate(i, p)
        \/ \E d \in Deal :
             \/ TopupActivates(i, p, d)
             \/ \E j \in Invoice : TopupBelowCommission(i, p, d, j)
             \/ \E j \in Invoice : TopupShort(i, p, d, j)
  BY DEF TopupPayment
<1>2. ASSUME UNCHANGED <<status, terms, locked, onHold, forced>>
      PROVE  EscrowBacked'
  BY <1>2, BackedStay DEF Tainted, HeldIn, Held
<1>3. ASSUME NEW d \in Deal, TopupActivates(i, p, d)
      PROVE  EscrowBacked'
  <2>1. /\ status[d] = "pending_topup"
        /\ status' = [status EXCEPT ![d] = "pending_confirmation"]
        /\ locked' = [locked EXCEPT ![terms[d].buyer] = @ + terms[d].amount]
        /\ UNCHANGED <<terms, onHold, forced>>
    BY <1>3 DEF TopupActivates, PaidFor, Close
  <2>2. /\ terms[d].buyer \in User /\ terms[d].amount \in Nat
        /\ forced[d] # "unfunded"
    BY <2>1, TermType DEF RowsOK, Disputed, Terminal
  <2>3. /\ status[d] \notin Active /\ status'[d] \in Active
        /\ \A e \in Deal \ {d} : status'[e] = status[e]
    BY <2>1 DEF Active, TypeOK
  <2> QED BY <2>1, <2>2, <2>3, BackedOpen
<1> QED
  BY <1>1, <1>2, <1>3 DEF TopupUnlinked, TopupLate, TopupBelowCommission, TopupShort

(* A step between two statuses that bind the same keeps EscrowBacked.      *)
LEMMA BackedMove ==
  ASSUME TypeOK, EscrowBacked, NEW d \in Deal, NEW x,
         status[d] \in Active <=> x \in Active,
         status' = [status EXCEPT ![d] = x],
         UNCHANGED <<terms, locked, onHold, forced>>
  PROVE  EscrowBacked'
<1>1. ASSUME NEW u \in User, NEW e \in Deal
      PROVE  HeldIn(e, u)' = HeldIn(e, u)
  BY DEF HeldIn, Held, TypeOK
<1>2. ASSUME NEW u \in User, ~Tainted(u)'
      PROVE  ~Tainted(u)
  BY <1>2 DEF Tainted
<1> QED BY <1>1, <1>2, BackedStay

(* The two decrements of the locked column are one.                        *)
Unlocks(d) ==
  locked' = [locked EXCEPT ![terms[d].buyer] = AtLeastZero(@ - terms[d].amount)]

(* The participants move a deal without unbinding it, or close it.         *)
LEMMA ParticipantBacked ==
  ASSUME Rows, Rows', Participant, EscrowBacked PROVE EscrowBacked'
<1> USE DEF balanceVars, observed, Rows, Close
<1>1. PICK d \in Deal, u \in User :
        \/ CancelPendingTopup(d, u)
        \/ AcceptDeal(d, u)
        \/ DeclineDeal(d, u)
        \/ FinishDeal(d, u)
        \/ RequestCancel(d, u)
        \/ RevokeCancel(d, u)
        \/ AcceptCancel(d, u)
        \/ StartArbitration(d, u)
  BY DEF Participant
<1>2. CASE CancelPendingTopup(d, u)
  <2>1. "pending_topup" \notin Active /\ "cancelled" \notin Active
    BY DEF Active
  <2> QED BY <2>1, <1>2, BackedMove DEF CancelPendingTopup
<1>3. CASE \/ AcceptDeal(d, u) \/ RequestCancel(d, u)
           \/ RevokeCancel(d, u) \/ StartArbitration(d, u)
  <2>1. PICK x \in Active : /\ status' = [status EXCEPT ![d] = x]
                            /\ status[d] \in Active
    BY <1>3 DEF AcceptDeal, RequestCancel, RevokeCancel, StartArbitration,
                ArbitrationEligible, Active
  <2>2. UNCHANGED <<terms, locked, onHold, forced>>
    BY <1>3 DEF AcceptDeal, RequestCancel, RevokeCancel, StartArbitration
  <2> QED BY <2>1, <2>2, BackedMove
<1>4. CASE DeclineDeal(d, u) \/ FinishDeal(d, u) \/ AcceptCancel(d, u)
  <2>1. PICK x \in {"cancelled", "completed"} :
          /\ status' = [status EXCEPT ![d] = x]
          /\ status[d] \in {"pending_confirmation", "in_progress",
                            "pending_cancellation"}
          /\ Unlocks(d)
          /\ UNCHANGED <<terms, onHold, forced>>
    BY <1>4 DEF DeclineDeal, FinishDeal, AcceptCancel, RefundPrincipal,
                ReleaseTo, Unlocks
  <2>2. status[d] \in Active /\ x \notin Active
    BY <2>1 DEF Active
  <2> QED BY <2>1, <2>2, BackedClose DEF Unlocks
<1> QED BY <1>1, <1>2, <1>3, <1>4

(* An admin closes an active deal, deletes one, or forces it into          *)
(* arbitration, which taints the buyer of a deal not paid for.             *)
LEMMA AdminBacked ==
  ASSUME Rows, Rows', Admin, EscrowBacked PROVE EscrowBacked'
<1> USE DEF balanceVars, observed, Rows, Close
<1>1. PICK d \in Deal :
        \/ ResolveForBuyer(d)
        \/ ResolveForSeller(d)
        \/ ForceRelease(d)
        \/ ForceRefund(d)
        \/ ForceArbitration(d)
        \/ DeleteDeal(d)
        \/ \E percent \in Percents : SplitDeal(d, percent)
  BY DEF Admin
<1>2. CASE ForceArbitration(d)
  <2>1. /\ status' = [status EXCEPT ![d] = "arbitration"]
        /\ UNCHANGED <<terms, locked, onHold>>
        /\ status[d] \in Active \cup {"pending_topup"}
        /\ \A e \in Deal : forced[e] = "unfunded" => e # d
    BY <1>2 DEF ForceArbitration, RowsOK, Disputed, Terminal, Active
  <2>2. forced' = [forced EXCEPT ![d] = IF status[d] = "pending_topup"
                                        THEN "unfunded" ELSE "funded"]
    BY <1>2 DEF ForceArbitration
  <2>3. ASSUME NEW u \in User, ~Tainted(u)'
        PROVE  /\ ~Tainted(u)
               /\ \A e \in Deal : HeldIn(e, u)' = HeldIn(e, u)
    <3>1. ~Tainted(u)
      BY <2>1, <2>2, <2>3 DEF Tainted, TypeOK
    <3>2. terms[d].buyer = u => status[d] \in Active
      BY <2>1, <2>2, <2>3 DEF Tainted, TypeOK
    <3>3. status'[d] \in Active /\ \A e \in Deal \ {d} : status'[e] = status[e]
      BY <2>1 DEF TypeOK, Active
    <3> QED BY <2>1, <3>1, <3>2, <3>3 DEF HeldIn, Held
  <2> QED BY <2>1, <2>3, BackedStay
<1>3. CASE DeleteDeal(d) /\ ~HoldsMoney(d)
  <2>1. "deleted" \notin Active /\ status[d] \notin Active
    BY <1>3 DEF Active, HoldsMoney
  <2> QED BY <2>1, <1>3, BackedMove DEF DeleteDeal
<1>4. CASE ~ForceArbitration(d) /\ ~(DeleteDeal(d) /\ ~HoldsMoney(d))
  <2>1. PICK x \in {"resolved_for_buyer", "resolved_for_seller", "deleted"} :
          /\ status' = [status EXCEPT ![d] = x]
          /\ status[d] = "arbitration" \/ HoldsMoney(d)
          /\ Unlocks(d)
          /\ UNCHANGED <<terms, onHold, forced>>
    BY <1>1, <1>4 DEF ResolveForBuyer, ResolveForSeller, ForceRelease,
         ForceRefund, DeleteDeal, SplitDeal, RefundPrincipal, ReleaseTo, Unlocks
  <2>2. status[d] \in Active /\ x \notin Active
    BY <2>1 DEF Active, HoldsMoney
  <2> QED BY <2>1, <2>2, BackedClose DEF Unlocks
<1> QED BY <1>2, <1>3, <1>4

(* The sweeps close deals that bind nothing, or unbind what they close.    *)
LEMMA SweepBacked ==
  ASSUME Rows, Rows', Sweep, EscrowBacked PROVE EscrowBacked'
<1> USE DEF dealVars, balanceVars, observed, Rows, Close
<1>1. ASSUME NEW d \in Deal, SweepPendingTopup(d)
      PROVE  EscrowBacked'
  <2>1. "pending_topup" \notin Active /\ "cancelled_for_inactivity" \notin Active
    BY DEF Active
  <2> QED BY <2>1, <1>1, BackedMove DEF SweepPendingTopup
<1>2. ASSUME NEW d \in Deal, SweepInactivity(d)
      PROVE  EscrowBacked'
  <2>1. PICK x \in {"cancelled_for_inactivity", "cancelled"} :
          /\ status' = [status EXCEPT ![d] = x]
          /\ status[d] \in SweptStatuses
          /\ Unlocks(d)
          /\ UNCHANGED <<terms, onHold, forced>>
    BY <1>2 DEF SweepInactivity, RefundPrincipal, Unlocks
  <2>2. status[d] \in Active /\ x \notin Active
    BY <2>1 DEF Active, SweptStatuses
  <2> QED BY <2>1, <2>2, BackedClose DEF Unlocks
<1>3. ASSUME NEW i \in Invoice, SweepExpiredDeposit(i)
      PROVE  EscrowBacked'
  BY <1>3, BackedStay DEF SweepExpiredDeposit, Tainted, HeldIn, Held
<1> QED BY <1>1, <1>2, <1>3 DEF Sweep

(* No pot is filled and nothing is locked at the start.                    *)
LEMMA InitBacked == ASSUME Init PROVE EscrowBacked
<1>1. ASSUME NEW u \in User
      PROVE  locked[u] = onHold[u] + HeldFor(u)
  <2> DEFINE f == [d \in Deal |-> HeldIn(d, u)]
  <2>1. NDeals \in Nat /\ f \in [1..NDeals -> Int]
    BY InitType, HeldType
  <2>2. \A d \in 1..NDeals : f[d] = 0
    BY DEF Init, HeldIn, Held, Active, Deal
  <2>3. HeldFor(u) = Total(f, NDeals)
    BY DEF HeldFor
  <2> HIDE DEF f
  <2>4. HeldFor(u) = 0
    BY <2>1, <2>2, <2>3, TotalZero
  <2> QED BY <2>4 DEF Init
<1> QED BY <1>1 DEF EscrowBacked

(* No sequence of participant, admin, payment and sweep steps unlocks a    *)
(* pot twice, leaves one behind, or lets the clamp of _refund_principal    *)
(* and _release_to lose money, whatever the numbers of users and deals,    *)
(* for every buyer none of whose deals was forced into arbitration before  *)
(* it was paid for.                                                        *)
THEOREM EscrowIsBacked == Spec => []EscrowBacked
<1>1. Init => EscrowBacked
  BY InitBacked
<1>2. ASSUME Rows, Rows', [Next]_vars, EscrowBacked
      PROVE  EscrowBacked'
  <2>1. CASE UNCHANGED vars
    BY <1>2, <2>1, BackedStay
       DEF vars, dealVars, balanceVars, observed, Rows, Tainted, HeldIn, Held
  <2> QED BY <1>2, <2>1, BorderBacked, CreationBacked, TopupPaymentBacked,
             ParticipantBacked, AdminBacked, SweepBacked DEF Next
<1> QED BY <1>1, <1>2, RowsCorrect, PTL DEF Spec

-----------------------------------------------------------------------------
(* CommissionOnce.                                                         *)

(* What is kept of the deals is a sum of natural numbers.                  *)
LEMMA KeptType ==
  ASSUME TypeOK
  PROVE  /\ NDeals \in Nat
         /\ \A d \in Deal : Kept(d) \in Nat
         /\ [d \in Deal |-> Kept(d)] \in [1..NDeals -> Int]
<1>1. NDeals \in Nat
  BY EscrowAssumption
<1>2. ASSUME NEW d \in Deal
      PROVE  Kept(d) \in Nat
  BY TermType DEF Kept
<1> QED BY <1>1, <1>2 DEF Deal

(* A step that keeps no more of any deal and books no fee.                 *)
LEMMA KeptStay ==
  ASSUME CommissionOnce, UNCHANGED fees,
         \A e \in Deal : Kept(e)' = Kept(e)
  PROVE  CommissionOnce'
<1>1. [e \in Deal |-> Kept(e)'] = [e \in Deal |-> Kept(e)]
  OBVIOUS
<1> QED BY <1>1 DEF CommissionOnce

(* A step that keeps something of one deal and books as much.              *)
LEMMA KeptUpdate ==
  ASSUME TypeOK, TypeOK', CommissionOnce, NEW d \in Deal,
         \A e \in Deal \ {d} : Kept(e)' = Kept(e),
         fees' = fees + (Kept(d)' - Kept(d))
  PROVE  CommissionOnce'
<1> DEFINE f == [e \in Deal |-> Kept(e)]
           g == [e \in Deal |-> Kept(e)']
<1>1. NDeals \in Nat /\ f \in [1..NDeals -> Int]
  BY KeptType
<1>2. g \in [1..NDeals -> Int]
  <2>1. ASSUME NEW e \in Deal
        PROVE  Kept(e)' \in Int
    <3>1. terms'[e].commission \in Nat
      BY DEF TypeOK, Term
    <3> QED BY <3>1 DEF Kept
  <2> QED BY <2>1 DEF Deal
<1>3. fees = Total(f, NDeals)
  BY DEF CommissionOnce
<1>4. /\ d \in 1..NDeals
      /\ \A e \in 1..NDeals : e # d => g[e] = f[e]
      /\ f[d] = Kept(d) /\ g[d] = Kept(d)'
  BY DEF Deal
<1> HIDE DEF f
<1> HIDE DEF g
<1>5. Total(g, NDeals) = Total(f, NDeals) + (g[d] - f[d])
  BY <1>1, <1>2, <1>4, TotalUpdate
<1>6. Total(f, NDeals) \in Int /\ f[d] \in Int /\ g[d] \in Int
  BY <1>1, <1>2, <1>4, TotalType
<1>7. fees' = Total(g, NDeals)
  BY <1>3, <1>4, <1>5, <1>6
<1> USE DEF g
<1> QED BY <1>7 DEF CommissionOnce

(* The creation of a deal takes its commission whole, or nothing yet.      *)
LEMMA CreationKept ==
  ASSUME Rows, Rows', Creation, CommissionOnce PROVE CommissionOnce'
<1> USE DEF observed, Rows
<1>1. PICK d \in Deal, b \in User, s \in User, a \in Amounts, rate \in Rates :
        \/ CreateFunded(d, b, s, a, rate)
        \/ \E i \in Invoice : CreatePendingTopup(d, b, s, a, rate, i)
  BY DEF Creation
<1>2. status[d] = "none" /\ Kept(d) = 0
  BY <1>1 DEF CreateFunded, CreatePendingTopup, IsNextDeal, RowsOK, Kept
<1>3. CASE CreateFunded(d, b, s, a, rate)
  <2>1. \A e \in Deal \ {d} : Kept(e)' = Kept(e)
    BY <1>3 DEF CreateFunded, InsertDeal, TypeOK, Kept
  <2>2. Kept(d)' = PercentOf(a, rate) /\ fees' = fees + PercentOf(a, rate)
    BY <1>3 DEF CreateFunded, InsertDeal, TypeOK, Kept
  <2>3. Kept(d)' \in Nat
    <3>1. a \in Nat /\ rate \in 0..100
      BY EscrowAssumption
    <3>2. PercentOf(a, rate) \in 0..a
      BY <3>1, PercentOfBounds
    <3> QED BY <3>1, <3>2, <2>2
  <2> QED BY <1>2, <2>1, <2>2, <2>3, KeptUpdate
<1>4. ASSUME NEW i \in Invoice, CreatePendingTopup(d, b, s, a, rate, i)
      PROVE  CommissionOnce'
  <2>1. \A e \in Deal : Kept(e)' = Kept(e)
    BY <1>2, <1>4 DEF CreatePendingTopup, InsertDeal, TypeOK, Kept
  <2> QED BY <2>1, <1>4, KeptStay DEF CreatePendingTopup
<1> QED BY <1>1, <1>3, <1>4

(* A payment takes what is still due of the commission, once covered.      *)
LEMMA TopupPaymentKept ==
  ASSUME Rows, Rows', TopupPayment, CommissionOnce PROVE CommissionOnce'
<1> USE DEF dealVars, Rows
<1>1. PICK i \in Invoice, p \in Payments :
        \/ TopupUnlinked(i, p)
        \/ TopupLate(i, p)
        \/ \E d \in Deal :
             \/ TopupActivates(i, p, d)
             \/ \E j \in Invoice : TopupBelowCommission(i, p, d, j)
             \/ \E j \in Invoice : TopupShort(i, p, d, j)
  BY DEF TopupPayment
<1>2. ASSUME UNCHANGED <<terms, commission_paid, fees>>
      PROVE  CommissionOnce'
  BY <1>2, KeptStay DEF Kept
<1>3. ASSUME NEW d \in Deal,
             \/ TopupActivates(i, p, d)
             \/ \E j \in Invoice : TopupShort(i, p, d, j)
      PROVE  CommissionOnce'
  <2>1. /\ fees' = fees + CommissionDue(d) /\ UNCHANGED terms
        /\ \/ commission_paid' = [commission_paid EXCEPT ![d] = TRUE]
           \/ commission_paid' = [commission_paid EXCEPT
                                    ![d] = @ \/ CommissionDue(d) > 0]
    BY <1>3 DEF TopupActivates, TopupShort
  <2>2. \A e \in Deal \ {d} : Kept(e)' = Kept(e)
    BY <2>1 DEF Kept, TypeOK
  <2>3. terms[d].commission \in Nat /\ fees \in Nat
    BY TermType DEF TypeOK
  <2>4. commission_paid'[d] \/ (~commission_paid[d] /\ terms[d].commission = 0)
    BY <2>1, <2>3 DEF TypeOK, CommissionDue
  <2>5. Kept(d)' = Kept(d) + CommissionDue(d)
    BY <2>1, <2>3, <2>4 DEF Kept, CommissionDue, TypeOK
  <2>6. Kept(d) \in Nat /\ CommissionDue(d) \in Nat
    BY KeptType, TermType
  <2> QED BY <2>1, <2>2, <2>5, <2>6, KeptUpdate
<1> QED
  BY <1>1, <1>2, <1>3 DEF TopupUnlinked, TopupLate, TopupBelowCommission

(* The platform keeps the commission of a deal exactly once, over any      *)
(* series of partial payments (complete_deal_topup_payment), and books     *)
(* nothing it does not record in commission_paid.                          *)
THEOREM CommissionKeptOnce == Spec => []CommissionOnce
<1>1. Init => CommissionOnce
  <2> SUFFICES ASSUME Init PROVE CommissionOnce
    OBVIOUS
  <2> DEFINE f == [d \in Deal |-> Kept(d)]
  <2>1. NDeals \in Nat /\ f \in [1..NDeals -> Int]
    BY InitType, KeptType
  <2>2. \A d \in 1..NDeals : f[d] = 0
    BY DEF Init, Kept, Deal
  <2>3. CommissionOnce <=> fees = Total(f, NDeals)
    BY DEF CommissionOnce
  <2> HIDE DEF f
  <2>4. fees = 0
    BY DEF Init
  <2> QED BY <2>1, <2>2, <2>3, <2>4, TotalZero
<1>2. ASSUME Rows, Rows', [Next]_vars, CommissionOnce
      PROVE  CommissionOnce'
  <2>1. ASSUME UNCHANGED <<terms, commission_paid, fees>>
        PROVE  CommissionOnce'
    BY <1>2, <2>1, KeptStay DEF Kept
  <2>2. CASE UNCHANGED vars
    BY <2>1, <2>2 DEF vars, dealVars, observed
  <2>3. CASE Border
    BY <2>1, <2>3 DEF Border, WalletCredit, AdjustDown, HoldWithdrawal,
         SendWithdrawal, RejectWithdrawal, dealVars, observed
  <2>4. CASE Participant
    BY <2>1, <2>4 DEF Participant, CancelPendingTopup, AcceptDeal, DeclineDeal,
         FinishDeal, RequestCancel, RevokeCancel, AcceptCancel,
         StartArbitration, observed
  <2>5. CASE Admin
    BY <2>1, <2>5 DEF Admin, ResolveForBuyer, ResolveForSeller, ForceRelease,
         ForceRefund, ForceArbitration, DeleteDeal, SplitDeal, observed
  <2>6. CASE Sweep
    BY <2>1, <2>6 DEF Sweep, SweepPendingTopup, SweepInactivity,
         SweepExpiredDeposit, dealVars, observed
  <2> QED BY <1>2, <2>2, <2>3, <2>4, <2>5, <2>6, CreationKept,
             TopupPaymentKept DEF Next
<1> QED BY <1>1, <1>2, RowsCorrect, PTL DEF Spec

-----------------------------------------------------------------------------
(* An invoice never refers to a deal that was not inserted.                *)

InvoicedDeals ==
  \A i \in Invoice : invoice[i].deal # None => status[invoice[i].deal] # "none"

(* Rows of deals do not vanish, and a step points an invoice at most at    *)
(* a deal that exists then.                                                *)
LEMMA InvoicedKept ==
  ASSUME TypeOK, InvoicedDeals,
         \A d \in Deal : status[d] # "none" => status'[d] # "none",
         \A i \in Invoice : \/ invoice'[i].deal \in {None, invoice[i].deal}
                            \/ status'[invoice'[i].deal] # "none"
  PROVE  InvoicedDeals'
<1>1. ASSUME NEW i \in Invoice, invoice[i].deal # None
      PROVE  invoice[i].deal \in Deal
  BY <1>1, EscrowAssumption DEF TypeOK, InvoiceRow, Deal, None
<1> QED BY <1>1 DEF InvoicedDeals

(* Closing an invoice does not redirect it.                                *)
LEMMA SameDeals ==
  ASSUME TypeOK,
         \/ UNCHANGED invoice
         \/ \E d : ExpireTopup(d)
         \/ \E i \in Invoice : invoice' = MarkPaid(i)
         \/ \E i \in Invoice : invoice' = [invoice EXCEPT ![i].status = "expired"],
         NEW i \in Invoice
  PROVE  invoice'[i].deal = invoice[i].deal
<1>1. invoice[i] \in InvoiceRow
  BY DEF TypeOK
<1>2. ASSUME NEW d, ExpireTopup(d)
      PROVE  invoice'[i].deal = invoice[i].deal
  BY <1>1, <1>2 DEF ExpireTopup, InvoiceRow
<1>3. ASSUME NEW j \in Invoice, NEW st,
             invoice' = [invoice EXCEPT ![j].status = st]
      PROVE  invoice'[i].deal = invoice[i].deal
  <2>1. invoice'[i] = IF i = j THEN [invoice[i] EXCEPT !.status = st] ELSE invoice[i]
    BY <1>3 DEF TypeOK
  <2> QED BY <1>1, <2>1 DEF InvoiceRow
<1> QED BY <1>2, <1>3 DEF MarkPaid

(* One step.                                                               *)
LEMMA InvoicedStep ==
  ASSUME Rows, [Next]_vars, InvoicedDeals PROVE InvoicedDeals'
<1> USE DEF Rows, dealVars
<1>1. CASE UNCHANGED vars
  BY <1>1, InvoicedKept DEF vars
<1>2. CASE Border
  <2>1. UNCHANGED <<status, invoice>>
    BY <1>2 DEF Border, WalletCredit, AdjustDown, HoldWithdrawal,
         SendWithdrawal, RejectWithdrawal
  <2> QED BY <2>1, InvoicedKept
<1>3. CASE Creation
  <2>1. PICK d \in Deal, b \in User, s \in User, a \in Amounts, rate \in Rates :
          \/ CreateFunded(d, b, s, a, rate)
          \/ \E i \in Invoice : CreatePendingTopup(d, b, s, a, rate, i)
    BY <1>3 DEF Creation
  <2>2. CASE CreateFunded(d, b, s, a, rate)
    <3>1. UNCHANGED invoice /\ status' = [status EXCEPT ![d] = "pending_confirmation"]
      BY <2>2 DEF CreateFunded, InsertDeal
    <3> QED BY <3>1, InvoicedKept DEF TypeOK
  <2>3. ASSUME NEW i \in Invoice, CreatePendingTopup(d, b, s, a, rate, i)
        PROVE  InvoicedDeals'
    <3>1. /\ status' = [status EXCEPT ![d] = "pending_topup"]
          /\ \A j \in Invoice \ {i} : invoice'[j] = invoice[j]
          /\ invoice'[i].deal = d
      BY <2>3 DEF CreatePendingTopup, InsertDeal, TypeOK
    <3>2. status'[d] # "none" /\ \A e \in Deal : status[e] # "none" => status'[e] # "none"
      BY <3>1 DEF TypeOK
    <3> QED BY <3>1, <3>2, InvoicedKept
  <2> QED BY <2>1, <2>2, <2>3
<1>4. CASE TopupPayment
  <2>1. PICK i \in Invoice, p \in Payments :
          \/ TopupUnlinked(i, p)
          \/ TopupLate(i, p)
          \/ \E d \in Deal :
               \/ TopupActivates(i, p, d)
               \/ \E j \in Invoice : TopupBelowCommission(i, p, d, j)
               \/ \E j \in Invoice : TopupShort(i, p, d, j)
    BY <1>4 DEF TopupPayment
  <2>2. CASE TopupUnlinked(i, p) \/ TopupLate(i, p)
    <3>1. UNCHANGED status /\ invoice' = MarkPaid(i)
      BY <2>2 DEF TopupUnlinked, TopupLate
    <3> QED BY <3>1, SameDeals, InvoicedKept
  <2>3. ASSUME NEW d \in Deal, TopupActivates(i, p, d)
        PROVE  InvoicedDeals'
    <3>1. /\ status' = [status EXCEPT ![d] = "pending_confirmation"]
          /\ invoice' = MarkPaid(i)
      BY <2>3 DEF TopupActivates, Close
    <3>2. \A e \in Deal : status[e] # "none" => status'[e] # "none"
      BY <3>1 DEF TypeOK
    <3> QED BY <3>1, <3>2, SameDeals, InvoicedKept
  <2>4. ASSUME NEW d \in Deal, NEW j \in Invoice,
               TopupBelowCommission(i, p, d, j) \/ TopupShort(i, p, d, j)
        PROVE  InvoicedDeals'
    <3>1. PICK balance, due :
            invoice' = [MarkPaid(i) EXCEPT ![j] = RemainingInvoice(d, balance, due)]
      BY <2>4 DEF TopupBelowCommission, TopupShort
    <3>2. UNCHANGED status /\ status[d] = "pending_topup"
      BY <2>4 DEF TopupBelowCommission, TopupShort, PaidFor
    <3>3. invoice'[j].deal = d
      BY <3>1 DEF MarkPaid, RemainingInvoice, TypeOK
    <3>4. ASSUME NEW k \in Invoice \ {j}
          PROVE  invoice'[k].deal = invoice[k].deal
      <4>1. invoice[k] \in InvoiceRow /\ invoice[i] \in InvoiceRow
        BY DEF TypeOK
      <4> QED BY <3>1, <4>1 DEF MarkPaid, InvoiceRow, TypeOK
    <3> QED BY <3>2, <3>3, <3>4, InvoicedKept
  <2> QED BY <2>1, <2>2, <2>3, <2>4
<1>5. CASE Participant
  <2>1. PICK d \in Deal, x \in Status \ {"none"} :
          /\ status' = [status EXCEPT ![d] = x]
          /\ UNCHANGED invoice \/ ExpireTopup(d)
    BY <1>5, StatusConstants
       DEF Participant, CancelPendingTopup, AcceptDeal, DeclineDeal, FinishDeal,
           RequestCancel, RevokeCancel, AcceptCancel, StartArbitration, Close
  <2>2. \A e \in Deal : status[e] # "none" => status'[e] # "none"
    BY <2>1 DEF TypeOK
  <2> QED BY <2>1, <2>2, SameDeals, InvoicedKept
<1>6. CASE Admin
  <2>1. PICK d \in Deal :
          \/ ResolveForBuyer(d)
          \/ ResolveForSeller(d)
          \/ ForceRelease(d)
          \/ ForceRefund(d)
          \/ ForceArbitration(d)
          \/ DeleteDeal(d)
          \/ \E percent \in Percents : SplitDeal(d, percent)
    BY <1>6 DEF Admin
  <2>2. PICK x \in {"resolved_for_buyer", "resolved_for_seller", "arbitration",
                    "deleted"} :
          status' = [status EXCEPT ![d] = x]
    BY <2>1 DEF ResolveForBuyer, ResolveForSeller, ForceRelease, ForceRefund,
                ForceArbitration, DeleteDeal, SplitDeal, Close
  <2>3. \A e \in Deal : status[e] # "none" => status'[e] # "none"
    BY <2>2 DEF TypeOK
  <2>4. ASSUME NEW i \in Invoice
        PROVE  invoice'[i].deal \in {None, invoice[i].deal}
    <3>1. CASE DeleteDeal(d)
      <4>1. invoice[i] \in InvoiceRow
        BY DEF TypeOK
      <4> QED BY <3>1, <4>1 DEF DeleteDeal, InvoiceRow
    <3>2. CASE ~DeleteDeal(d)
      BY <2>1, <3>2 DEF ResolveForBuyer, ResolveForSeller, ForceRelease,
           ForceRefund, ForceArbitration, SplitDeal
    <3> QED BY <3>1, <3>2
  <2> QED BY <2>3, <2>4, InvoicedKept
<1>7. CASE Sweep
  <2>1. ASSUME NEW d \in Deal, SweepPendingTopup(d) \/ SweepInactivity(d)
        PROVE  InvoicedDeals'
    <3>1. PICK x \in {"cancelled_for_inactivity", "cancelled"} :
            status' = [status EXCEPT ![d] = x]
      BY <2>1 DEF SweepPendingTopup, SweepInactivity, Close
    <3>2. UNCHANGED invoice \/ ExpireTopup(d)
      BY <2>1 DEF SweepPendingTopup, SweepInactivity
    <3>3. \A e \in Deal : status[e] # "none" => status'[e] # "none"
      BY <3>1 DEF TypeOK
    <3> QED BY <3>2, <3>3, SameDeals, InvoicedKept
  <2>2. ASSUME NEW i \in Invoice, SweepExpiredDeposit(i)
        PROVE  InvoicedDeals'
    BY <2>2, SameDeals, InvoicedKept DEF SweepExpiredDeposit
  <2> QED BY <1>7, <2>1, <2>2 DEF Sweep
<1> QED BY <1>1, <1>2, <1>3, <1>4, <1>5, <1>6, <1>7 DEF Next

-----------------------------------------------------------------------------
(* Conservation.                                                           *)

(* All the money the system accounts for.                                  *)
Worth == ((Total(amount, NUsers) + Total(locked, NUsers)) + fees) + unattached

(* The sum of a column is an integer.                                      *)
LEMMA ColumnType ==
  ASSUME NEW f \in [User -> Nat]
  PROVE  NUsers \in Nat /\ f \in [1..NUsers -> Int] /\ Total(f, NUsers) \in Int
<1>1. NUsers \in Nat /\ f \in [1..NUsers -> Int]
  BY EscrowAssumption DEF User
<1> QED BY <1>1, TotalType

(* A change of one balance changes the sum of its column by as much.       *)
LEMMA ColumnUpdate ==
  ASSUME NEW f \in [User -> Nat], NEW g \in [User -> Nat], NEW u \in User,
         \A v \in User : v # u => g[v] = f[v]
  PROVE  Total(g, NUsers) = Total(f, NUsers) + (g[u] - f[u])
<1>1. NUsers \in Nat /\ f \in [1..NUsers -> Int] /\ g \in [1..NUsers -> Int]
  BY ColumnType
<1>2. u \in 1..NUsers /\ \A k \in 1..NUsers : k # u => g[k] = f[k]
  BY DEF User
<1> QED BY <1>1, <1>2, TotalUpdate

(* A deal that was forced into arbitration unpaid remains marked.          *)
LEMMA FundedBefore ==
  ASSUME Rows, [Next]_vars, FundedOnly' PROVE FundedOnly
<1>1. CASE \E d \in Deal : ForceArbitration(d)
  <2>1. PICK d \in Deal : ForceArbitration(d)
    BY <1>1
  <2>2. forced[d] # "unfunded"
    BY <2>1 DEF ForceArbitration, Rows, RowsOK, Disputed, Terminal, Active
  <2> QED BY <2>1, <2>2 DEF ForceArbitration, FundedOnly, Rows, TypeOK
<1>2. CASE ~\E d \in Deal : ForceArbitration(d)
  <2>1. UNCHANGED forced
    <3>1. CASE UNCHANGED vars
      BY <3>1 DEF vars, observed
    <3>2. CASE Border
      BY <3>2 DEF Border, WalletCredit, AdjustDown, HoldWithdrawal,
           SendWithdrawal, RejectWithdrawal, observed
    <3>7. CASE Creation
      <4>1. ASSUME NEW d, NEW b, NEW s, NEW a, NEW rate,
                   CreateFunded(d, b, s, a, rate)
            PROVE  UNCHANGED forced
        BY <4>1 DEF CreateFunded
      <4>2. ASSUME NEW d, NEW b, NEW s, NEW a, NEW rate, NEW i,
                   CreatePendingTopup(d, b, s, a, rate, i)
            PROVE  UNCHANGED forced
        BY <4>2 DEF CreatePendingTopup, observed
      <4> QED BY <3>7, <4>1, <4>2 DEF Creation
    <3>3. CASE TopupPayment
      BY <3>3 DEF TopupPayment, TopupUnlinked, TopupLate, TopupActivates,
           TopupBelowCommission, TopupShort
    <3>4. CASE Participant
      BY <3>4 DEF Participant, CancelPendingTopup, AcceptDeal, DeclineDeal,
           FinishDeal, RequestCancel, RevokeCancel, AcceptCancel,
           StartArbitration, observed
    <3>5. CASE Admin
      BY <3>5, <1>2 DEF Admin, ResolveForBuyer, ResolveForSeller, ForceRelease,
           ForceRefund, DeleteDeal, SplitDeal, observed
    <3>6. CASE Sweep
      BY <3>6 DEF Sweep, SweepPendingTopup, SweepInactivity,
           SweepExpiredDeposit, observed
    <3> QED BY <3>1, <3>2, <3>3, <3>4, <3>5, <3>6, <3>7 DEF Next
  <2> QED BY <2>1 DEF FundedOnly
<1> QED BY <1>1, <1>2

(* The locked column of a buyer holds what an active deal binds.           *)
LEMMA BuyerCovered ==
  ASSUME Rows, EscrowBacked, FundedOnly, NEW d \in Deal, status[d] \in Active
  PROVE  /\ terms[d].buyer \in User /\ terms[d].seller \in User
         /\ terms[d].buyer # terms[d].seller
         /\ terms[d].amount \in Nat
         /\ locked[terms[d].buyer] \in Nat
         /\ locked[terms[d].buyer] >= terms[d].amount
<1> USE DEF Rows
<1>1. /\ terms[d].buyer \in User /\ terms[d].seller \in User
      /\ terms[d].buyer # terms[d].seller
      /\ terms[d].amount \in Nat
  BY TermType DEF RowsOK, Active
<1> DEFINE b == terms[d].buyer
<1>2. locked[b] = onHold[b] + HeldFor(b)
  BY <1>1 DEF EscrowBacked, Tainted, FundedOnly
<1>3. HeldIn(d, b) = terms[d].amount
  BY DEF HeldIn, Held
<1>4. HeldFor(b) \in Nat /\ HeldIn(d, b) <= HeldFor(b)
  BY HeldForCovers
<1>5. onHold[b] \in Nat /\ locked[b] \in Nat
  BY <1>1 DEF TypeOK
<1> HIDE DEF b
<1>6. locked[b] >= terms[d].amount
  BY <1>1, <1>2, <1>3, <1>4, <1>5
<1> QED BY <1>1, <1>5, <1>6 DEF b

(* The parts of the sum are integers.                                      *)
LEMMA SumType ==
  ASSUME TypeOK
  PROVE  /\ Total(amount, NUsers) + Total(locked, NUsers) \in Int
         /\ fees \in Int /\ unattached \in Int /\ net \in Int
<1>1. Total(amount, NUsers) \in Int /\ Total(locked, NUsers) \in Int
  BY ColumnType DEF TypeOK
<1> QED BY <1>1 DEF TypeOK

(* A change of one balance in each column changes the sum by both.         *)
LEMMA ColumnsUpdate ==
  ASSUME TypeOK, TypeOK', NEW u \in User, NEW v \in User,
         \A w \in User : w # u => locked'[w] = locked[w],
         \A w \in User : w # v => amount'[w] = amount[w]
  PROVE  Total(amount', NUsers) + Total(locked', NUsers)
           = (Total(amount, NUsers) + Total(locked, NUsers))
               + ((amount'[v] - amount[v]) + (locked'[u] - locked[u]))
<1>1. /\ amount \in [User -> Nat] /\ amount' \in [User -> Nat]
      /\ locked \in [User -> Nat] /\ locked' \in [User -> Nat]
  BY DEF TypeOK
<1>2. Total(amount', NUsers) = Total(amount, NUsers) + (amount'[v] - amount[v])
  BY <1>1, ColumnUpdate
<1>3. Total(locked', NUsers) = Total(locked, NUsers) + (locked'[u] - locked[u])
  BY <1>1, ColumnUpdate
<1>4. Total(amount, NUsers) \in Int /\ Total(locked, NUsers) \in Int
  BY <1>1, ColumnType
<1>5. amount'[v] \in Nat /\ amount[v] \in Nat /\ locked'[u] \in Nat /\ locked[u] \in Nat
  BY <1>1
<1> QED BY <1>2, <1>3, <1>4, <1>5

(* Unlocking what is locked and crediting it to someone keeps the sum.     *)
LEMMA MoveKeepsSum ==
  ASSUME TypeOK, TypeOK', NEW u \in User, NEW v \in User, NEW p \in Nat,
         locked[u] >= p,
         locked' = [locked EXCEPT ![u] = AtLeastZero(@ - p)],
         amount' = [amount EXCEPT ![v] = @ + p]
  PROVE  Total(amount', NUsers) + Total(locked', NUsers)
           = Total(amount, NUsers) + Total(locked, NUsers)
<1>1. amount[v] \in Nat /\ locked[u] \in Nat
  BY DEF TypeOK
<1>2. /\ \A w \in User : w # u => locked'[w] = locked[w]
      /\ \A w \in User : w # v => amount'[w] = amount[w]
      /\ amount'[v] = amount[v] + p
      /\ locked'[u] = AtLeastZero(locked[u] - p)
  BY DEF TypeOK
<1>3. locked'[u] = locked[u] - p
  BY <1>1, <1>2 DEF AtLeastZero
<1>4. Total(amount', NUsers) + Total(locked', NUsers)
        = (Total(amount, NUsers) + Total(locked, NUsers))
            + ((amount'[v] - amount[v]) + (locked'[u] - locked[u]))
  BY <1>2, ColumnsUpdate
<1> QED BY <1>1, <1>2, <1>3, <1>4, SumType

(* Unlocking what is locked in two shares for two users keeps the sum.     *)
LEMMA SplitKeepsSum ==
  ASSUME TypeOK, TypeOK', NEW b \in User, NEW s \in User, b # s,
         NEW x \in Nat, NEW y \in Nat,
         \A w \in User : w # b => locked'[w] = locked[w],
         \A w \in User : w # b /\ w # s => amount'[w] = amount[w],
         locked'[b] = locked[b] - (x + y),
         amount'[b] = amount[b] + x,
         amount'[s] = amount[s] + y
  PROVE  Total(amount', NUsers) + Total(locked', NUsers)
           = Total(amount, NUsers) + Total(locked, NUsers)
<1>1. /\ amount \in [User -> Nat] /\ amount' \in [User -> Nat]
      /\ locked \in [User -> Nat] /\ locked' \in [User -> Nat]
      /\ amount[b] \in Nat /\ amount[s] \in Nat /\ locked[b] \in Nat
  BY DEF TypeOK
<1>2. PICK mid \in [User -> Nat] :
        /\ mid[b] = amount[b] + x /\ mid[s] = amount[s]
        /\ \A w \in User : w # b => mid[w] = amount[w]
  <2>1. [amount EXCEPT ![b] = @ + x] \in [User -> Nat]
    BY <1>1
  <2> WITNESS [amount EXCEPT ![b] = @ + x] \in [User -> Nat]
  <2> QED BY <1>1
<1>3. \A w \in User : w # s => amount'[w] = mid[w]
  BY <1>2
<1>4. Total(locked', NUsers) = Total(locked, NUsers) + (locked'[b] - locked[b])
  BY <1>1, ColumnUpdate
<1>5. Total(mid, NUsers) = Total(amount, NUsers) + (mid[b] - amount[b])
  BY <1>1, <1>2, ColumnUpdate
<1>6. Total(amount', NUsers) = Total(mid, NUsers) + (amount'[s] - mid[s])
  BY <1>1, <1>3, ColumnUpdate
<1>7. Total(amount, NUsers) \in Int /\ Total(locked, NUsers) \in Int
  BY <1>1, ColumnType
<1> QED BY <1>1, <1>2, <1>4, <1>5, <1>6, <1>7

(* A step that touches no balance column but amount of one user.           *)
LEMMA CreditKeepsSum ==
  ASSUME TypeOK, TypeOK', NEW u \in User, NEW y \in Nat,
         amount' = [amount EXCEPT ![u] = y], UNCHANGED locked
  PROVE  Total(amount', NUsers) + Total(locked', NUsers)
           = (Total(amount, NUsers) + Total(locked, NUsers)) + (y - amount[u])
<1>1. /\ \A w \in User : w # u => locked'[w] = locked[w]
      /\ \A w \in User : w # u => amount'[w] = amount[w]
      /\ amount'[u] = y /\ locked'[u] = locked[u]
      /\ amount[u] \in Nat /\ locked[u] \in Nat
  BY DEF TypeOK
<1>2. Total(amount', NUsers) + Total(locked', NUsers)
        = (Total(amount, NUsers) + Total(locked, NUsers))
            + ((amount'[u] - amount[u]) + (locked'[u] - locked[u]))
  BY <1>1, ColumnsUpdate
<1> QED BY <1>1, <1>2, SumType

(* A step that takes from, or adds to, both columns of one user.           *)
LEMMA BothColumns ==
  ASSUME TypeOK, TypeOK', NEW u \in User, NEW y \in Nat, NEW z \in Nat,
         amount' = [amount EXCEPT ![u] = y], locked' = [locked EXCEPT ![u] = z]
  PROVE  Total(amount', NUsers) + Total(locked', NUsers)
           = (Total(amount, NUsers) + Total(locked, NUsers))
               + ((y - amount[u]) + (z - locked[u]))
<1>1. /\ \A w \in User : w # u => locked'[w] = locked[w]
      /\ \A w \in User : w # u => amount'[w] = amount[w]
      /\ amount'[u] = y /\ locked'[u] = z
  BY DEF TypeOK
<1>2. Total(amount', NUsers) + Total(locked', NUsers)
        = (Total(amount, NUsers) + Total(locked, NUsers))
            + ((amount'[u] - amount[u]) + (locked'[u] - locked[u]))
  BY <1>1, ColumnsUpdate
<1> QED BY <1>1, <1>2

(* The sum is what came in.                                                *)
Balanced == Worth = net

(* A step that unlocks a pot for someone and crosses no border.            *)
LEMMA MoveBalanced ==
  ASSUME TypeOK, TypeOK', Balanced, NEW u \in User, NEW v \in User, NEW p \in Nat,
         locked[u] >= p,
         locked' = [locked EXCEPT ![u] = AtLeastZero(@ - p)],
         amount' = [amount EXCEPT ![v] = @ + p],
         UNCHANGED observed
  PROVE  Balanced'
<1>1. Total(amount', NUsers) + Total(locked', NUsers)
        = Total(amount, NUsers) + Total(locked, NUsers)
  BY MoveKeepsSum
<1> QED BY <1>1 DEF Balanced, Worth, observed

(* Money crossing the border.                                              *)
LEMMA BorderBalanced ==
  ASSUME Rows, Rows', EscrowBacked, FundedOnly, Border, Balanced PROVE Balanced'
<1> USE DEF balanceVars, Rows
<1>1. PICK u \in User, x \in Transfers :
        \/ WalletCredit(u, x)
        \/ AdjustDown(u, x)
        \/ HoldWithdrawal(u, x)
        \/ SendWithdrawal(u, x)
        \/ RejectWithdrawal(u, x)
  BY DEF Border
<1>2. x \in Nat /\ amount[u] \in Nat /\ locked[u] \in Nat /\ onHold[u] \in Nat
  BY EscrowAssumption DEF TypeOK
<1>3. locked[u] >= onHold[u]
  <2>1. locked[u] = onHold[u] + HeldFor(u)
    BY DEF EscrowBacked, Tainted, FundedOnly
  <2> QED BY <1>2, <2>1, HeldForCovers
<1>4. CASE WalletCredit(u, x)
  <2>1. amount[u] + x \in Nat
    BY <1>2
  <2>2. Total(amount', NUsers) + Total(locked', NUsers)
          = (Total(amount, NUsers) + Total(locked, NUsers))
              + ((amount[u] + x) - amount[u])
    BY <1>4, <2>1, CreditKeepsSum DEF WalletCredit
  <2> QED BY <1>2, <1>4, <2>2, SumType DEF WalletCredit, Balanced, Worth
<1>5. CASE AdjustDown(u, x)
  <2>1. amount[u] - x \in Nat
    BY <1>2, <1>5 DEF AdjustDown
  <2>2. Total(amount', NUsers) + Total(locked', NUsers)
          = (Total(amount, NUsers) + Total(locked, NUsers))
              + ((amount[u] - x) - amount[u])
    BY <1>5, <2>1, CreditKeepsSum DEF AdjustDown
  <2> QED BY <1>2, <1>5, <2>2, SumType DEF AdjustDown, Balanced, Worth
<1>6. CASE HoldWithdrawal(u, x)
  <2>1. amount[u] - x \in Nat /\ locked[u] + x \in Nat
    BY <1>2, <1>6 DEF HoldWithdrawal
  <2>2. Total(amount', NUsers) + Total(locked', NUsers)
          = (Total(amount, NUsers) + Total(locked, NUsers))
              + (((amount[u] - x) - amount[u]) + ((locked[u] + x) - locked[u]))
    BY <1>6, <2>1, BothColumns DEF HoldWithdrawal
  <2> QED BY <1>2, <1>6, <2>2, SumType
          DEF HoldWithdrawal, Balanced, Worth, observed
<1>7. CASE SendWithdrawal(u, x)
  <2>1. locked[u] - x \in Nat /\ AtLeastZero(locked[u] - x) = locked[u] - x
    BY <1>2, <1>3, <1>7 DEF SendWithdrawal, AtLeastZero
  <2>2. locked' = [locked EXCEPT ![u] = locked[u] - x]
    BY <1>7, <2>1 DEF SendWithdrawal
  <2>3. amount' = [amount EXCEPT ![u] = amount[u]]
    BY <1>7 DEF SendWithdrawal, TypeOK
  <2>4. Total(amount', NUsers) + Total(locked', NUsers)
          = (Total(amount, NUsers) + Total(locked, NUsers))
              + ((amount[u] - amount[u]) + ((locked[u] - x) - locked[u]))
    BY <1>2, <2>1, <2>2, <2>3, BothColumns
  <2> QED BY <1>2, <1>7, <2>4, SumType DEF SendWithdrawal, Balanced, Worth
<1>8. CASE RejectWithdrawal(u, x)
  <2>1. locked[u] >= x
    BY <1>2, <1>3, <1>8 DEF RejectWithdrawal
  <2> QED BY <1>2, <1>8, <2>1, MoveBalanced DEF RejectWithdrawal, RefundPrincipal
<1> QED BY <1>1, <1>4, <1>5, <1>6, <1>7, <1>8

(* The creation of a deal: what the buyer pays is locked or kept.          *)
LEMMA CreationBalanced ==
  ASSUME Rows, Rows', Creation, Balanced PROVE Balanced'
<1> USE DEF balanceVars, observed, Rows
<1>1. PICK d \in Deal, b \in User, s \in User, a \in Amounts, rate \in Rates :
        \/ CreateFunded(d, b, s, a, rate)
        \/ \E i \in Invoice : CreatePendingTopup(d, b, s, a, rate, i)
  BY DEF Creation
<1>2. CASE CreateFunded(d, b, s, a, rate)
  <2> DEFINE c == PercentOf(a, rate)
  <2>1. /\ amount[b] >= a + c
        /\ amount' = [amount EXCEPT ![b] = amount[b] - (a + c)]
        /\ locked' = [locked EXCEPT ![b] = locked[b] + a]
        /\ fees' = fees + c /\ UNCHANGED <<net, unattached>>
    BY <1>2 DEF CreateFunded
  <2>2. a \in Nat /\ c \in Nat /\ amount[b] \in Nat /\ locked[b] \in Nat
    <3>1. a \in Nat /\ rate \in 0..100
      BY EscrowAssumption
    <3>2. PercentOf(a, rate) \in 0..a
      BY <3>1, PercentOfBounds
    <3> QED BY <3>1, <3>2 DEF TypeOK
  <2> HIDE DEF c
  <2>3. amount[b] - (a + c) \in Nat /\ locked[b] + a \in Nat
    BY <2>1, <2>2
  <2>4. Total(amount', NUsers) + Total(locked', NUsers)
          = (Total(amount, NUsers) + Total(locked, NUsers))
              + (((amount[b] - (a + c)) - amount[b]) + ((locked[b] + a) - locked[b]))
    BY <2>1, <2>3, BothColumns
  <2> QED BY <2>1, <2>2, <2>4, SumType DEF Balanced, Worth
<1>3. ASSUME NEW i \in Invoice, CreatePendingTopup(d, b, s, a, rate, i)
      PROVE  Balanced'
  BY <1>3 DEF CreatePendingTopup, Balanced, Worth
<1> QED BY <1>1, <1>2, <1>3

(* The payment of an invoice: what comes in is credited, kept, locked or   *)
(* set aside for a deal that is gone.                                      *)
LEMMA TopupPaymentBalanced ==
  ASSUME Rows, Rows', InvoicedDeals, TopupPayment, Balanced PROVE Balanced'
<1> USE DEF dealVars, balanceVars, Rows
<1>1. PICK i \in Invoice, p \in Payments :
        \/ TopupUnlinked(i, p)
        \/ TopupLate(i, p)
        \/ \E d \in Deal :
             \/ TopupActivates(i, p, d)
             \/ \E j \in Invoice : TopupBelowCommission(i, p, d, j)
             \/ \E j \in Invoice : TopupShort(i, p, d, j)
  BY DEF TopupPayment
<1>2. p \in Nat
  BY PaymentType
<1>3. ASSUME NEW b \in User, amount' = [amount EXCEPT ![b] = @ + p],
             UNCHANGED <<locked, fees, unattached>>, net' = net + p
      PROVE  Balanced'
  <2>1. amount[b] \in Nat /\ amount[b] + p \in Nat
    BY <1>2 DEF TypeOK
  <2>2. Total(amount', NUsers) + Total(locked', NUsers)
          = (Total(amount, NUsers) + Total(locked, NUsers))
              + ((amount[b] + p) - amount[b])
    BY <1>3, <2>1, CreditKeepsSum
  <2> QED BY <1>2, <1>3, <2>1, <2>2, SumType DEF Balanced, Worth
<1>4. ASSUME NEW d \in Deal, status[d] # "none"
      PROVE  /\ terms[d].buyer \in User /\ amount[terms[d].buyer] \in Nat
             /\ locked[terms[d].buyer] \in Nat
             /\ terms[d].amount \in Nat /\ CommissionDue(d) \in Nat
  BY <1>4, TermType DEF RowsOK, TypeOK
<1>5. CASE TopupUnlinked(i, p)
  BY <1>2, <1>5, SumType DEF TopupUnlinked, Balanced, Worth
<1>6. CASE TopupLate(i, p)
  <2> DEFINE b == terms[invoice[i].deal].buyer
  <2>1. /\ amount' = [amount EXCEPT ![b] = @ + p]
        /\ UNCHANGED <<locked, fees, unattached>> /\ net' = net + p
    BY <1>6 DEF TopupLate
  <2>2. b \in User
    <3>1. invoice[i].deal \in Deal
      BY <1>6, PaymentType DEF TopupLate, Deal, None
    <3>2. status[invoice[i].deal] # "none"
      BY <1>6 DEF TopupLate, InvoicedDeals
    <3> QED BY <3>1, <3>2, <1>4
  <2> QED BY <2>1, <2>2, <1>3
<1>7. ASSUME NEW d \in Deal, TopupActivates(i, p, d)
      PROVE  Balanced'
  <2> DEFINE b == terms[d].buyer
             due == CommissionDue(d)
             a == terms[d].amount
             y == (amount[b] + (p - due)) - a
             z == locked[b] + a
  <2>1. b \in User /\ amount[b] \in Nat /\ locked[b] \in Nat /\ a \in Nat /\ due \in Nat
    BY <1>4, <1>7 DEF TopupActivates, PaidFor
  <2>2. /\ p >= due /\ amount[b] + (p - due) >= a
        /\ amount' = [amount EXCEPT ![b] = y] /\ locked' = [locked EXCEPT ![b] = z]
        /\ fees' = fees + due /\ net' = net + p /\ UNCHANGED unattached
    BY <1>7 DEF TopupActivates
  <2> HIDE DEF b, due, a
  <2>3. y \in Nat /\ z \in Nat
    BY <1>2, <2>1, <2>2
  <2>4. Total(amount', NUsers) + Total(locked', NUsers)
          = (Total(amount, NUsers) + Total(locked, NUsers))
              + ((y - amount[b]) + (z - locked[b]))
    BY <2>1, <2>2, <2>3, BothColumns
  <2> QED BY <1>2, <2>1, <2>2, <2>4, SumType DEF Balanced, Worth
<1>8. ASSUME NEW d \in Deal, NEW j \in Invoice, TopupBelowCommission(i, p, d, j)
      PROVE  Balanced'
  BY <1>3, <1>4, <1>8 DEF TopupBelowCommission, PaidFor
<1>9. ASSUME NEW d \in Deal, NEW j \in Invoice, TopupShort(i, p, d, j)
      PROVE  Balanced'
  <2> DEFINE b == terms[d].buyer
             due == CommissionDue(d)
             y == amount[b] + (p - due)
  <2>1. b \in User /\ amount[b] \in Nat /\ due \in Nat
    BY <1>4, <1>9 DEF TopupShort, PaidFor
  <2>2. /\ p >= due /\ amount' = [amount EXCEPT ![b] = y] /\ UNCHANGED locked
        /\ fees' = fees + due /\ net' = net + p /\ UNCHANGED unattached
    BY <1>9 DEF TopupShort
  <2> HIDE DEF b, due
  <2>3. y \in Nat
    BY <1>2, <2>1, <2>2
  <2>4. Total(amount', NUsers) + Total(locked', NUsers)
          = (Total(amount, NUsers) + Total(locked, NUsers)) + (y - amount[b])
    BY <2>1, <2>2, <2>3, CreditKeepsSum
  <2> QED BY <1>2, <2>1, <2>2, <2>4, SumType DEF Balanced, Worth
<1> QED BY <1>1, <1>5, <1>6, <1>7, <1>8, <1>9

(* A step that leaves every column as it is.                               *)
LEMMA StayBalanced ==
  ASSUME Balanced, UNCHANGED <<amount, locked, net, fees, unattached>>
  PROVE  Balanced'
BY DEF Balanced, Worth

(* A step that takes the pot of an active deal to one of its parties.      *)
LEMMA PotBalanced ==
  ASSUME Rows, Rows', EscrowBacked, FundedOnly, Balanced,
         NEW d \in Deal, status[d] \in Active,
         \/ RefundPrincipal(terms[d].buyer, terms[d].amount)
         \/ ReleaseTo(terms[d].buyer, terms[d].seller, terms[d].amount),
         UNCHANGED <<net, fees, unattached>>
  PROVE  Balanced'
<1>1. /\ terms[d].buyer \in User /\ terms[d].seller \in User
      /\ terms[d].amount \in Nat /\ locked[terms[d].buyer] >= terms[d].amount
  BY BuyerCovered
<1>2. PICK v \in User :
        /\ amount' = [amount EXCEPT ![v] = @ + terms[d].amount]
        /\ locked' = [locked EXCEPT ![terms[d].buyer] =
                                       AtLeastZero(@ - terms[d].amount)]
  BY <1>1 DEF RefundPrincipal, ReleaseTo
<1>3. Total(amount', NUsers) + Total(locked', NUsers)
        = Total(amount, NUsers) + Total(locked, NUsers)
  BY <1>1, <1>2, MoveKeepsSum DEF Rows
<1> QED BY <1>3 DEF Balanced, Worth

(* The participants pay out what is locked, or nothing.                    *)
LEMMA ParticipantBalanced ==
  ASSUME Rows, Rows', EscrowBacked, FundedOnly, Participant, Balanced PROVE Balanced'
<1> USE DEF balanceVars, observed
<1>1. PICK d \in Deal, u \in User :
        \/ CancelPendingTopup(d, u)
        \/ AcceptDeal(d, u)
        \/ DeclineDeal(d, u)
        \/ FinishDeal(d, u)
        \/ RequestCancel(d, u)
        \/ RevokeCancel(d, u)
        \/ AcceptCancel(d, u)
        \/ StartArbitration(d, u)
  BY DEF Participant
<1>2. CASE DeclineDeal(d, u) \/ FinishDeal(d, u) \/ AcceptCancel(d, u)
  BY <1>2, PotBalanced DEF DeclineDeal, FinishDeal, AcceptCancel, Active
<1>3. CASE ~(DeclineDeal(d, u) \/ FinishDeal(d, u) \/ AcceptCancel(d, u))
  BY <1>1, <1>3, StayBalanced DEF CancelPendingTopup, AcceptDeal,
       RequestCancel, RevokeCancel, StartArbitration
<1> QED BY <1>2, <1>3

(* An admin pays out what is locked, whole or in two shares, or nothing.   *)
LEMMA AdminBalanced ==
  ASSUME Rows, Rows', EscrowBacked, FundedOnly, Admin, Balanced PROVE Balanced'
<1> USE DEF balanceVars, observed, HoldsMoney
<1>1. PICK d \in Deal :
        \/ ResolveForBuyer(d)
        \/ ResolveForSeller(d)
        \/ ForceRelease(d)
        \/ ForceRefund(d)
        \/ ForceArbitration(d)
        \/ DeleteDeal(d)
        \/ \E percent \in Percents : SplitDeal(d, percent)
  BY DEF Admin
<1>2. CASE \/ ResolveForBuyer(d) \/ ResolveForSeller(d)
           \/ ForceRelease(d) \/ ForceRefund(d)
  BY <1>2, PotBalanced DEF ResolveForBuyer, ResolveForSeller, ForceRelease,
       ForceRefund, Active
<1>3. CASE ForceArbitration(d)
  BY <1>3, StayBalanced DEF ForceArbitration
<1>4. CASE DeleteDeal(d)
  BY <1>4, PotBalanced, StayBalanced DEF DeleteDeal
<1>5. ASSUME NEW percent \in Percents, SplitDeal(d, percent)
      PROVE  Balanced'
  <2> DEFINE b == terms[d].buyer
             s == terms[d].seller
             p == terms[d].amount
             x == PercentOf(p, percent)
             y == SellerShare(p, percent)
  <2>1. /\ b \in User /\ s \in User /\ b # s
        /\ p \in Nat /\ locked[b] \in Nat /\ locked[b] >= p
    BY <1>5, BuyerCovered DEF SplitDeal
  <2>2. x \in Nat /\ y \in Nat /\ x + y = p
    <3>1. percent \in 0..100
      BY EscrowAssumption
    <3>2. x \in 0..p
      BY <2>1, <3>1, PercentOfBounds
    <3> QED BY <2>1, <3>2 DEF SellerShare
  <2>3. /\ locked' = [locked EXCEPT ![b] = AtLeastZero(locked[b] - p)]
        /\ amount' = [amount EXCEPT ![b] = @ + x, ![s] = @ + y]
        /\ UNCHANGED <<net, fees, unattached>>
    BY <1>5 DEF SplitDeal
  <2> HIDE DEF b, s, p, x, y
  <2>4. /\ \A w \in User : w # b => locked'[w] = locked[w]
        /\ locked'[b] = AtLeastZero(locked[b] - p)
    BY <2>1, <2>3 DEF Rows, TypeOK
  <2>5. /\ \A w \in User : w # b /\ w # s => amount'[w] = amount[w]
        /\ amount'[b] = amount[b] + x /\ amount'[s] = amount[s] + y
    BY <2>1, <2>3 DEF Rows, TypeOK
  <2>6. locked'[b] = locked[b] - (x + y)
    BY <2>1, <2>2, <2>4 DEF AtLeastZero
  <2>7. Total(amount', NUsers) + Total(locked', NUsers)
          = Total(amount, NUsers) + Total(locked, NUsers)
    BY <2>1, <2>2, <2>4, <2>5, <2>6, SplitKeepsSum DEF Rows
  <2> QED BY <2>3, <2>7 DEF Balanced, Worth
<1> QED BY <1>1, <1>2, <1>3, <1>4, <1>5

(* The sweeps return what is locked, or nothing.                           *)
LEMMA SweepBalanced ==
  ASSUME Rows, Rows', EscrowBacked, FundedOnly, Sweep, Balanced PROVE Balanced'
<1> USE DEF balanceVars, observed
<1>1. ASSUME NEW d \in Deal, SweepPendingTopup(d)
      PROVE  Balanced'
  BY <1>1, StayBalanced DEF SweepPendingTopup
<1>2. ASSUME NEW d \in Deal, SweepInactivity(d)
      PROVE  Balanced'
  BY <1>2, PotBalanced DEF SweepInactivity, SweptStatuses, Active
<1>3. ASSUME NEW i \in Invoice, SweepExpiredDeposit(i)
      PROVE  Balanced'
  BY <1>3, StayBalanced DEF SweepExpiredDeposit
<1> QED BY <1>1, <1>2, <1>3 DEF Sweep

(* Conservation is inductive together with EscrowBacked, by which the      *)
(* clamps of the locked columns lose nothing, and InvoicedDeals, by which  *)
(* a late payment is credited to someone.                                  *)
ConservationInv == InvoicedDeals /\ (FundedOnly => Balanced)

(* No money is created or lost by any sequence of steps of participants,   *)
(* admins, payments and sweeps, whatever the numbers of users and deals,   *)
(* unless an admin forced a deal into arbitration before it was paid for.  *)
THEOREM MoneyIsConserved == Spec => []Conservation
<1>1. Init => ConservationInv
  <2> SUFFICES ASSUME Init PROVE ConservationInv
    OBVIOUS
  <2>1. InvoicedDeals
    BY DEF Init, InvoicedDeals
  <2>2. amount \in [User -> Nat] /\ locked \in [User -> Nat]
    BY InitType DEF TypeOK
  <2>3. \A u \in 1..NUsers : amount[u] = 0 /\ locked[u] = 0
    BY DEF Init, User
  <2>4. Total(amount, NUsers) = 0 /\ Total(locked, NUsers) = 0
    BY <2>2, <2>3, ColumnType, TotalZero
  <2> QED BY <2>1, <2>4 DEF Init, Balanced, Worth, ConservationInv
<1>2. ASSUME Rows, Rows', EscrowBacked, [Next]_vars, ConservationInv
      PROVE  ConservationInv'
  <2>1. InvoicedDeals'
    BY <1>2, InvoicedStep DEF ConservationInv
  <2>2. ASSUME FundedOnly' PROVE Balanced'
    <3>1. FundedOnly /\ Balanced /\ InvoicedDeals
      BY <1>2, <2>2, FundedBefore DEF ConservationInv
    <3>2. CASE UNCHANGED vars
      BY <3>1, <3>2, StayBalanced DEF vars, balanceVars, observed
    <3> QED BY <1>2, <3>1, <3>2, BorderBalanced, CreationBalanced,
               TopupPaymentBalanced, ParticipantBalanced, AdminBalanced,
               SweepBalanced DEF Next
  <2> QED BY <2>1, <2>2 DEF ConservationInv
<1>3. ConservationInv => Conservation
  BY DEF ConservationInv, Conservation, Balanced, Worth
<1> QED BY <1>1, <1>2, <1>3, RowsCorrect, EscrowIsBacked, PTL DEF Spec
=============================================================================
