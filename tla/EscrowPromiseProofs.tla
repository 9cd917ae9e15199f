------------------------ MODULE EscrowPromiseProofs ------------------------
(***************************************************************************)
(* What the deals of Escrow promise, for every value of its constants:     *)
(* closed deals stay closed, a waiting deal can always be paid for, the    *)
(* public counters never exceed the deals behind them, and every step of   *)
(* the service is a step of EscrowPromise.                                 *)
(***************************************************************************)
EXTENDS EscrowRefines, EscrowProofs, FiniteSetTheorems

-----------------------------------------------------------------------------
(* ClosedIsFinal.                                                          *)

(* A step moves at most one deal, and a closed one only by deleting it.    *)
LEMMA OneDealMoves ==
  ASSUME Next
  PROVE  \/ UNCHANGED status
         \/ \E d \in Deal, x \in Status :
              /\ status' = [status EXCEPT ![d] = x]
              /\ status[d] \in Terminal => x = "deleted"
<1> USE DEF dealVars, Close
<1>1. CASE Border
  BY <1>1 DEF Border, WalletCredit, AdjustDown, HoldWithdrawal,
       SendWithdrawal, RejectWithdrawal
<1>2. CASE Creation
  <2>1. PICK d \in Deal, b \in User, s \in User, a \in Amounts, rate \in Rates :
          \/ CreateFunded(d, b, s, a, rate)
          \/ \E i \in Invoice : CreatePendingTopup(d, b, s, a, rate, i)
    BY <1>2 DEF Creation
  <2>2. status[d] = "none"
    BY <2>1 DEF CreateFunded, CreatePendingTopup, IsNextDeal
  <2>3. \/ status' = [status EXCEPT ![d] = "pending_confirmation"]
        \/ status' = [status EXCEPT ![d] = "pending_topup"]
    BY <2>1 DEF CreateFunded, CreatePendingTopup, InsertDeal
  <2> QED BY <2>2, <2>3, StatusConstants DEF Terminal
<1>3. CASE TopupPayment
  <2>1. \/ UNCHANGED status
        \/ \E i \in Invoice, p \in Payments, d \in Deal : TopupActivates(i, p, d)
    BY <1>3 DEF TopupPayment, TopupUnlinked, TopupLate, TopupBelowCommission,
         TopupShort
  <2>2. ASSUME NEW i \in Invoice, NEW p \in Payments, NEW d \in Deal,
               TopupActivates(i, p, d)
        PROVE  /\ status' = [status EXCEPT ![d] = "pending_confirmation"]
               /\ status[d] = "pending_topup"
    BY <2>2 DEF TopupActivates, PaidFor
  <2> QED BY <2>1, <2>2, StatusConstants DEF Terminal
<1>4. CASE Participant
  <2>1. PICK d \in Deal, x \in Status :
          /\ status' = [status EXCEPT ![d] = x]
          /\ status[d] \in {"pending_topup", "pending_confirmation",
                            "in_progress", "pending_cancellation"}
    BY <1>4, StatusConstants DEF Participant, CancelPendingTopup, AcceptDeal, DeclineDeal,
         FinishDeal, RequestCancel, RevokeCancel, AcceptCancel,
         StartArbitration, ArbitrationEligible
  <2> QED BY <2>1 DEF Terminal
<1>5. CASE Admin
  <2>1. PICK d \in Deal, x \in Status :
          /\ status' = [status EXCEPT ![d] = x]
          /\ status[d] \in Active \cup {"pending_topup"} \/ x = "deleted"
    BY <1>5, StatusConstants DEF Admin, ResolveForBuyer, ResolveForSeller, ForceRelease,
         ForceRefund, ForceArbitration, DeleteDeal, SplitDeal, HoldsMoney, Active
  <2> QED BY <2>1 DEF Terminal, Active
<1>6. CASE Sweep
  <2>1. \/ UNCHANGED status
        \/ \E d \in Deal : SweepPendingTopup(d) \/ SweepInactivity(d)
    BY <1>6 DEF Sweep, SweepExpiredDeposit
  <2>2. ASSUME NEW d \in Deal, SweepPendingTopup(d) \/ SweepInactivity(d)
        PROVE  \E x \in Status :
                 /\ status' = [status EXCEPT ![d] = x]
                 /\ status[d] \in SweptStatuses \cup {"pending_topup"}
    BY <2>2, StatusConstants DEF SweepPendingTopup, SweepInactivity
  <2> QED BY <2>1, <2>2 DEF SweptStatuses, Terminal
<1> QED BY <1>1, <1>2, <1>3, <1>4, <1>5, <1>6 DEF Next

(* No late payment, sweep, retry or decision of an admin moves a closed    *)
(* deal anywhere but out of the table, whatever the numbers of deals and   *)
(* users: each handler re-reads the status under the lock of the row.      *)
THEOREM ClosedStaysClosed == Spec => ClosedIsFinal
<1> DEFINE Final == \A d \in Deal : status[d] \in Terminal =>
                      status'[d] \in {status[d], "deleted"}
<1>1. ASSUME Rows, [Next]_vars
      PROVE  [Final]_vars
  <2>1. CASE Next
    <3>1. CASE UNCHANGED status
      BY <3>1
    <3>2. ASSUME NEW e \in Deal, NEW x,
                 status' = [status EXCEPT ![e] = x],
                 status[e] \in Terminal => x = "deleted"
          PROVE  Final
      BY <1>1, <3>2 DEF Rows, TypeOK
    <3> QED BY <2>1, <3>1, <3>2, OneDealMoves
  <2>2. CASE UNCHANGED vars
    BY <2>2
  <2> QED BY <1>1, <2>1, <2>2
<1> QED BY <1>1, RowsCorrect, PTL DEF Spec, ClosedIsFinal

-----------------------------------------------------------------------------
(* InvoiceDiscipline.                                                      *)

Unpaid == {"pending", "expired"}

(* The first half of InvoiceDiscipline: what a waiting deal points at.     *)
WaitingInvoiced ==
  \A d \in Deal : status[d] = "pending_topup" =>
    /\ topup[d] \in Invoice
    /\ invoice[topup[d]].deal = d
    /\ invoice[topup[d]].status \in Unpaid
    /\ invoice[topup[d]].total >= CommissionDue(d)

(* An unpaid invoice, open or expired, is the current one of its deal: an  *)
(* earlier invoice that could still be paid would outlive its replacement. *)
CurrentOnly ==
  \A i \in Invoice, d \in Deal :
    invoice[i].status \in Unpaid /\ invoice[i].deal = d => topup[d] = i

(* An open invoice belongs to a deal that waits for it.                    *)
OpenAwaited ==
  \A i \in Invoice, d \in Deal :
    invoice[i].status = "pending" /\ invoice[i].deal = d =>
      status[d] = "pending_topup" \/ forced[d] = "unfunded"

Invoicing == WaitingInvoiced /\ CurrentOnly /\ OpenAwaited

(* The fields of the invoices after the updates the handlers make.         *)
LEMMA InvoiceSet ==
  ASSUME TypeOK, NEW i \in Invoice, NEW st,
         invoice' = [invoice EXCEPT ![i].status = st],
         NEW k \in Invoice
  PROVE  /\ invoice'[k].status = IF k = i THEN st ELSE invoice[k].status
         /\ invoice'[k].deal = invoice[k].deal
         /\ invoice'[k].total = invoice[k].total
<1>1. invoice'[k] = IF k = i THEN [invoice[k] EXCEPT !.status = st] ELSE invoice[k]
  BY DEF TypeOK
<1>2. invoice[k] \in InvoiceRow
  BY DEF TypeOK
<1> QED BY <1>1, <1>2 DEF InvoiceRow

(* The open invoice of a deal that is closed becomes an expired one.       *)
LEMMA InvoiceExpired ==
  ASSUME TypeOK, NEW d \in Deal, ExpireTopup(d), NEW k \in Invoice
  PROVE  /\ invoice'[k].status = IF k = topup[d] /\ invoice[k].status = "pending"
                                 THEN "expired" ELSE invoice[k].status
         /\ invoice'[k].deal = invoice[k].deal
         /\ invoice'[k].total = invoice[k].total
<1>1. invoice'[k] = IF k = topup[d] /\ invoice[k].status = "pending"
                    THEN [invoice[k] EXCEPT !.status = "expired"]
                    ELSE invoice[k]
  BY DEF ExpireTopup
<1>2. invoice[k] \in InvoiceRow
  BY DEF TypeOK
<1> QED BY <1>1, <1>2 DEF InvoiceRow

(* A paid invoice and the row that replaces it.                            *)
LEMMA InvoiceReplaced ==
  ASSUME TypeOK, NEW i \in Invoice, NEW j \in Invoice, NEW row,
         invoice' = [MarkPaid(i) EXCEPT ![j] = row], NEW k \in Invoice, k # j
  PROVE  /\ invoice'[k].status = IF k = i THEN "paid" ELSE invoice[k].status
         /\ invoice'[k].deal = invoice[k].deal
         /\ invoice'[k].total = invoice[k].total
<1>1. invoice'[k] = IF k = i THEN [invoice[k] EXCEPT !.status = "paid"] ELSE invoice[k]
  BY DEF MarkPaid, TypeOK
<1>2. invoice[k] \in InvoiceRow
  BY DEF TypeOK
<1> QED BY <1>1, <1>2 DEF InvoiceRow

(* A step that touches neither invoices nor waiting deals, except that an  *)
(* admin may force a waiting deal into arbitration.                        *)
LEMMA InvoicingStay ==
  ASSUME Invoicing, UNCHANGED <<invoice, topup>>,
         \A d \in Deal :
           /\ status'[d] = "pending_topup" =>
                status[d] = "pending_topup" /\ CommissionDue(d)' = CommissionDue(d)
           /\ status[d] = "pending_topup" =>
                status'[d] = "pending_topup" \/ forced'[d] = "unfunded"
           /\ forced[d] = "unfunded" => forced'[d] = "unfunded"
  PROVE  Invoicing'
<1>1. WaitingInvoiced'
  <2> SUFFICES ASSUME NEW d \in Deal, status'[d] = "pending_topup"
               PROVE  /\ topup'[d] \in Invoice
                      /\ invoice'[topup'[d]].deal = d
                      /\ invoice'[topup'[d]].status \in Unpaid
                      /\ invoice'[topup'[d]].total >= CommissionDue(d)'
    BY DEF WaitingInvoiced
  <2> QED BY DEF Invoicing, WaitingInvoiced
<1>2. CurrentOnly' /\ OpenAwaited'
  BY DEF Invoicing, CurrentOnly, OpenAwaited
<1> QED BY <1>1, <1>2 DEF Invoicing

(* A step that closes a waiting deal and expires its invoice.              *)
LEMMA InvoicingExpire ==
  ASSUME TypeOK, Invoicing, NEW d \in Deal, NEW x,
         status[d] = "pending_topup", x # "pending_topup",
         status' = [status EXCEPT ![d] = x],
         ExpireTopup(d),
         UNCHANGED <<terms, commission_paid, topup, forced>>
  PROVE  Invoicing'
<1> USE DEF Invoicing, Unpaid
<1>1. \A k \in Invoice :
        /\ invoice'[k].status = IF k = topup[d] /\ invoice[k].status = "pending"
                                THEN "expired" ELSE invoice[k].status
        /\ invoice'[k].deal = invoice[k].deal
        /\ invoice'[k].total = invoice[k].total
  BY InvoiceExpired
<1>2. \A e \in Deal : status'[e] = IF e = d THEN x ELSE status[e]
  BY DEF TypeOK
<1>3. \A e \in Deal : CommissionDue(e)' = CommissionDue(e)
  BY DEF CommissionDue
<1>4. WaitingInvoiced'
  <2> SUFFICES ASSUME NEW e \in Deal, status'[e] = "pending_topup"
               PROVE  /\ topup'[e] \in Invoice
                      /\ invoice'[topup'[e]].deal = e
                      /\ invoice'[topup'[e]].status \in Unpaid
                      /\ invoice'[topup'[e]].total >= CommissionDue(e)'
    BY DEF WaitingInvoiced
  <2> QED BY <1>1, <1>2, <1>3 DEF WaitingInvoiced
<1>5. CurrentOnly'
  BY <1>1 DEF CurrentOnly
<1>6. OpenAwaited'
  BY <1>1, <1>2 DEF OpenAwaited, CurrentOnly
<1> QED BY <1>4, <1>5, <1>6

(* The creation of a deal: no earlier invoice points at the new row.       *)
LEMMA InvoicingCreation ==
  ASSUME Rows, InvoicedDeals, Invoicing, Creation PROVE Invoicing'
<1> USE DEF Rows, Invoicing, Unpaid, observed
<1>1. PICK d \in Deal, b \in User, s \in User, a \in Amounts, rate \in Rates :
        \/ CreateFunded(d, b, s, a, rate)
        \/ \E i \in Invoice : CreatePendingTopup(d, b, s, a, rate, i)
  BY DEF Creation
<1>2. /\ status[d] = "none" /\ UNCHANGED forced /\ d # None
      /\ forced[d] # "unfunded"
  <2>1. status[d] = "none" /\ UNCHANGED forced
    BY <1>1 DEF CreateFunded, CreatePendingTopup, IsNextDeal
  <2>2. d # None
    BY EscrowAssumption DEF Deal, None
  <2> QED BY <2>1, <2>2 DEF RowsOK
<1>3. \A i \in Invoice : invoice[i].deal # d
  BY <1>2 DEF InvoicedDeals
<1>4. ASSUME NEW st, NEW paid, NEW inv,
             InsertDeal(d, b, s, a, PercentOf(a, rate), st, paid, inv)
      PROVE  /\ \A e \in Deal : status'[e] = IF e = d THEN st ELSE status[e]
             /\ \A e \in Deal : topup'[e] = IF e = d THEN inv ELSE topup[e]
             /\ \A e \in Deal \ {d} : CommissionDue(e)' = CommissionDue(e)
             /\ ~paid => CommissionDue(d)' = PercentOf(a, rate)
  BY <1>4 DEF InsertDeal, CommissionDue, TypeOK
<1>5. CASE CreateFunded(d, b, s, a, rate)
  <2>1. /\ \A e \in Deal : status'[e] = IF e = d THEN "pending_confirmation"
                                        ELSE status[e]
        /\ \A e \in Deal : topup'[e] = IF e = d THEN None ELSE topup[e]
        /\ \A e \in Deal \ {d} : CommissionDue(e)' = CommissionDue(e)
        /\ UNCHANGED invoice
    BY <1>4, <1>5 DEF CreateFunded
  <2>2. WaitingInvoiced'
    <3> SUFFICES ASSUME NEW e \in Deal, status'[e] = "pending_topup"
                 PROVE  /\ topup'[e] \in Invoice
                        /\ invoice'[topup'[e]].deal = e
                        /\ invoice'[topup'[e]].status \in Unpaid
                        /\ invoice'[topup'[e]].total >= CommissionDue(e)'
      BY DEF WaitingInvoiced
    <3> QED BY <2>1 DEF WaitingInvoiced
  <2>3. CurrentOnly'
    BY <2>1, <1>3 DEF CurrentOnly
  <2>4. OpenAwaited'
    BY <2>1, <1>2, <1>3 DEF OpenAwaited
  <2> QED BY <2>2, <2>3, <2>4
<1>6. ASSUME NEW i \in Invoice, CreatePendingTopup(d, b, s, a, rate, i)
      PROVE  Invoicing'
  <2> DEFINE c == PercentOf(a, rate)
  <2>1. /\ \A e \in Deal : status'[e] = IF e = d THEN "pending_topup"
                                        ELSE status[e]
        /\ \A e \in Deal : topup'[e] = IF e = d THEN i ELSE topup[e]
        /\ \A e \in Deal \ {d} : CommissionDue(e)' = CommissionDue(e)
        /\ CommissionDue(d)' = c
    BY <1>4, <1>6 DEF CreatePendingTopup
  <2>2. /\ invoice'[i] = [status |-> "pending", deal |-> d,
                          total |-> AtLeastZero(a - amount[b]) + c]
        /\ \A k \in Invoice \ {i} : invoice'[k] = invoice[k]
        /\ invoice[i].status = "none"
    BY <1>6 DEF CreatePendingTopup, IsNextInvoice, TypeOK
  <2>3. AtLeastZero(a - amount[b]) + c >= c
    <3>1. a \in Nat /\ rate \in 0..100 /\ amount[b] \in Nat
      BY EscrowAssumption DEF TypeOK
    <3>2. c \in 0..a
      BY <3>1, PercentOfBounds
    <3>3. AtLeastZero(a - amount[b]) \in Nat
      BY <3>1, ClampIsNat
    <3> HIDE DEF c
    <3> QED BY <3>1, <3>2, <3>3
  <2> HIDE DEF c
  <2>4. WaitingInvoiced'
    <3> SUFFICES ASSUME NEW e \in Deal, status'[e] = "pending_topup"
                 PROVE  /\ topup'[e] \in Invoice
                        /\ invoice'[topup'[e]].deal = e
                        /\ invoice'[topup'[e]].status \in Unpaid
                        /\ invoice'[topup'[e]].total >= CommissionDue(e)'
      BY DEF WaitingInvoiced
    <3>1. CASE e = d
      BY <3>1, <2>1, <2>2, <2>3
    <3>2. CASE e # d
      BY <3>2, <2>1, <2>2 DEF WaitingInvoiced
    <3> QED BY <3>1, <3>2
  <2>5. CurrentOnly'
    BY <2>1, <2>2, <1>3 DEF CurrentOnly
  <2>6. OpenAwaited'
    BY <2>1, <2>2, <1>2, <1>3 DEF OpenAwaited
  <2> QED BY <2>4, <2>5, <2>6
<1> QED BY <1>1, <1>5, <1>6

(* The payment of an invoice: only the current invoice of a waiting deal   *)
(* can be paid for it, and its replacement is current from then on.        *)
LEMMA InvoicingPayment ==
  ASSUME Rows, Rows', Invoicing, TopupPayment PROVE Invoicing'
<1> USE DEF Rows, Invoicing, Unpaid, dealVars, observed
<1>1. PICK i \in Invoice, p \in Payments :
        \/ TopupUnlinked(i, p)
        \/ TopupLate(i, p)
        \/ \E d \in Deal :
             \/ TopupActivates(i, p, d)
             \/ \E j \in Invoice : TopupBelowCommission(i, p, d, j)
             \/ \E j \in Invoice : TopupShort(i, p, d, j)
  BY DEF TopupPayment
<1>2. invoice[i].status \in Unpaid
  BY <1>1 DEF TopupUnlinked, TopupLate, TopupActivates, TopupBelowCommission,
              TopupShort, Payable
<1>3. CASE TopupUnlinked(i, p) \/ TopupLate(i, p)
  <2>1. /\ UNCHANGED <<status, terms, commission_paid, topup, forced>>
        /\ invoice' = [invoice EXCEPT ![i].status = "paid"]
    BY <1>3 DEF TopupUnlinked, TopupLate, MarkPaid
  <2>2. \A k \in Invoice :
          /\ invoice'[k].status = IF k = i THEN "paid" ELSE invoice[k].status
          /\ invoice'[k].deal = invoice[k].deal
          /\ invoice'[k].total = invoice[k].total
    BY <2>1, InvoiceSet
  <2>3. \A d \in Deal : status[d] = "pending_topup" => invoice[i].deal # d
    <3>1. ASSUME NEW d \in Deal, invoice[i].deal = d
          PROVE  d # None
      BY EscrowAssumption DEF Deal, None
    <3> QED BY <3>1, <1>3 DEF TopupUnlinked, TopupLate, PaidFor
  <2>4. WaitingInvoiced'
    <3> SUFFICES ASSUME NEW e \in Deal, status'[e] = "pending_topup"
                 PROVE  /\ topup'[e] \in Invoice
                        /\ invoice'[topup'[e]].deal = e
                        /\ invoice'[topup'[e]].status \in Unpaid
                        /\ invoice'[topup'[e]].total >= CommissionDue(e)'
      BY DEF WaitingInvoiced
    <3> QED BY <2>1, <2>2, <2>3 DEF WaitingInvoiced, CommissionDue
  <2>5. CurrentOnly' /\ OpenAwaited'
    BY <2>1, <2>2 DEF CurrentOnly, OpenAwaited
  <2> QED BY <2>4, <2>5
<1>4. ASSUME NEW d \in Deal, TopupActivates(i, p, d)
      PROVE  Invoicing'
  <2>1. /\ status' = [status EXCEPT ![d] = "pending_confirmation"]
        /\ commission_paid' = [commission_paid EXCEPT ![d] = TRUE]
        /\ invoice' = [invoice EXCEPT ![i].status = "paid"]
        /\ UNCHANGED <<terms, topup, forced>>
        /\ invoice[i].deal = d
    BY <1>4 DEF TopupActivates, MarkPaid, Close, PaidFor
  <2>2. \A k \in Invoice :
          /\ invoice'[k].status = IF k = i THEN "paid" ELSE invoice[k].status
          /\ invoice'[k].deal = invoice[k].deal
          /\ invoice'[k].total = invoice[k].total
    BY <2>1, InvoiceSet
  <2>3. \A e \in Deal \ {d} : /\ status'[e] = status[e]
                              /\ CommissionDue(e)' = CommissionDue(e)
    BY <2>1 DEF CommissionDue, TypeOK
  <2>4. status'[d] # "pending_topup"
    BY <2>1 DEF TypeOK
  <2>5. WaitingInvoiced'
    <3> SUFFICES ASSUME NEW e \in Deal, status'[e] = "pending_topup"
                 PROVE  /\ topup'[e] \in Invoice
                        /\ invoice'[topup'[e]].deal = e
                        /\ invoice'[topup'[e]].status \in Unpaid
                        /\ invoice'[topup'[e]].total >= CommissionDue(e)'
      BY DEF WaitingInvoiced
    <3> QED BY <2>1, <2>2, <2>3, <2>4 DEF WaitingInvoiced
  <2>6. CurrentOnly'
    BY <2>1, <2>2 DEF CurrentOnly
  <2>7. OpenAwaited'
    BY <2>1, <2>2, <2>3, <1>2 DEF OpenAwaited, CurrentOnly
  <2> QED BY <2>5, <2>6, <2>7
<1>5. ASSUME NEW d \in Deal, NEW j \in Invoice,
             TopupBelowCommission(i, p, d, j) \/ TopupShort(i, p, d, j)
      PROVE  Invoicing'
  <2>1. PICK balance \in Int, due \in Nat :
          /\ invoice' = [MarkPaid(i) EXCEPT ![j] = RemainingInvoice(d, balance, due)]
          /\ CommissionDue(d)' <= due
    <3>1. terms[d].buyer \in User /\ p \in Nat /\ CommissionDue(d) \in Nat
      BY <1>5, TermType, EscrowAssumption
         DEF TopupBelowCommission, TopupShort, PaidFor, RowsOK
    <3>2. amount[terms[d].buyer] \in Nat
      BY <3>1 DEF TypeOK
    <3>3. CASE TopupBelowCommission(i, p, d, j)
      <4>1. CommissionDue(d)' = CommissionDue(d)
        BY <3>3 DEF TopupBelowCommission, CommissionDue
      <4>2. invoice' = [MarkPaid(i) EXCEPT ![j] =
              RemainingInvoice(d, amount[terms[d].buyer] + p, CommissionDue(d))]
        BY <3>3 DEF TopupBelowCommission
      <4> DEFINE balance == amount[terms[d].buyer] + p
                 due == CommissionDue(d)
      <4>3. balance \in Int
        BY <3>1, <3>2
      <4>4. due \in Nat /\ CommissionDue(d)' <= due
        BY <3>1, <4>1
      <4> HIDE DEF balance, due
      <4> QED BY <4>2, <4>3, <4>4 DEF balance, due
    <3>4. CASE TopupShort(i, p, d, j)
      <4> DEFINE balance == amount[terms[d].buyer] + (p - CommissionDue(d))
      <4>1. invoice' = [MarkPaid(i) EXCEPT ![j] = RemainingInvoice(d, balance, 0)]
        BY <3>4 DEF TopupShort
      <4>2. balance \in Int
        BY <3>1, <3>2
      <4>3. CommissionDue(d)' = 0
        <5>1. /\ commission_paid' = [commission_paid EXCEPT
                                       ![d] = @ \/ CommissionDue(d) > 0]
              /\ UNCHANGED terms
          BY <3>4 DEF TopupShort
        <5>2. terms[d].commission \in Nat
          BY TermType
        <5>3. commission_paid'[d] <=> commission_paid[d] \/ CommissionDue(d) > 0
          BY <5>1 DEF TypeOK
        <5>4. ~commission_paid[d] => CommissionDue(d) = terms[d].commission
          BY DEF CommissionDue
        <5>5. commission_paid'[d] \/ terms[d].commission = 0
          BY <5>2, <5>3, <5>4
        <5> QED BY <5>1, <5>5 DEF CommissionDue
      <4> HIDE DEF balance
      <4>4. 0 \in Nat /\ CommissionDue(d)' <= 0
        BY <4>3
      <4> QED BY <4>1, <4>2, <4>4
    <3> QED BY <1>5, <3>3, <3>4
  <2>2. /\ UNCHANGED <<status, terms, forced>>
        /\ topup' = [topup EXCEPT ![d] = j]
        /\ status[d] = "pending_topup" /\ invoice[i].deal = d
        /\ invoice[j].status = "none"
        /\ \A e \in Deal \ {d} : commission_paid'[e] = commission_paid[e]
    BY <1>5 DEF TopupBelowCommission, TopupShort, PaidFor, IsNextInvoice, TypeOK
  <2>3. \A k \in Invoice \ {j} :
          /\ invoice'[k].status = IF k = i THEN "paid" ELSE invoice[k].status
          /\ invoice'[k].deal = invoice[k].deal
          /\ invoice'[k].total = invoice[k].total
    BY <2>1, InvoiceReplaced
  <2>4. invoice'[j].status = "pending" /\ invoice'[j].deal = d
        /\ invoice'[j].total >= due
    <3>1. invoice'[j] = RemainingInvoice(d, balance, due)
      BY <2>1 DEF MarkPaid, TypeOK
    <3>2. AtLeastZero(terms[d].amount - balance) \in Nat
      BY TermType, ClampIsNat
    <3>3. AtLeastZero(terms[d].amount - balance) + due >= due
      BY <3>2
    <3> QED BY <3>1, <3>3 DEF RemainingInvoice
  <2>5. /\ \A e \in Deal : topup'[e] = IF e = d THEN j ELSE topup[e]
        /\ \A e \in Deal \ {d} : CommissionDue(e)' = CommissionDue(e)
    BY <2>2 DEF CommissionDue, TypeOK
  <2>6. WaitingInvoiced'
    <3> SUFFICES ASSUME NEW e \in Deal, status'[e] = "pending_topup"
                 PROVE  /\ topup'[e] \in Invoice
                        /\ invoice'[topup'[e]].deal = e
                        /\ invoice'[topup'[e]].status \in Unpaid
                        /\ invoice'[topup'[e]].total >= CommissionDue(e)'
      BY DEF WaitingInvoiced
    <3>1. CASE e = d
      <4>1. CommissionDue(d)' \in Nat /\ invoice'[j].total \in Nat
        <5>1. terms'[d].commission \in Nat
          BY DEF TypeOK, Term
        <5>2. invoice'[j] \in InvoiceRow
          BY DEF TypeOK
        <5> QED BY <5>1, <5>2 DEF CommissionDue, InvoiceRow
      <4>2. invoice'[j].total >= CommissionDue(d)'
        BY <4>1, <2>1, <2>4
      <4> QED BY <3>1, <2>4, <2>5, <4>2
    <3>2. CASE e # d
      <4>1. topup[e] # j /\ topup[e] # i
        BY <3>2, <2>2 DEF WaitingInvoiced
      <4> QED BY <3>2, <4>1, <2>2, <2>3, <2>5 DEF WaitingInvoiced
    <3> QED BY <3>1, <3>2
  <2>7. CurrentOnly'
    <3> SUFFICES ASSUME NEW k \in Invoice, NEW e \in Deal,
                        invoice'[k].status \in Unpaid, invoice'[k].deal = e
                 PROVE  topup'[e] = k
      BY DEF CurrentOnly
    <3>1. CASE k = j
      BY <3>1, <2>4, <2>5
    <3>2. CASE k # j
      BY <3>2, <2>2, <2>3, <2>5, <1>2 DEF CurrentOnly
    <3> QED BY <3>1, <3>2
  <2>8. OpenAwaited'
    <3> SUFFICES ASSUME NEW k \in Invoice, NEW e \in Deal,
                        invoice'[k].status = "pending", invoice'[k].deal = e
                 PROVE  status'[e] = "pending_topup" \/ forced'[e] = "unfunded"
      BY DEF OpenAwaited
    <3>1. CASE k = j
      BY <3>1, <2>2, <2>4
    <3>2. CASE k # j
      BY <3>2, <2>2, <2>3 DEF OpenAwaited
    <3> QED BY <3>1, <3>2
  <2> QED BY <2>6, <2>7, <2>8
<1> QED BY <1>1, <1>3, <1>4, <1>5

(* The participants leave the waiting deals alone, or close one.           *)
LEMMA InvoicingParticipant ==
  ASSUME Rows, Invoicing, Participant PROVE Invoicing'
<1> USE DEF Rows, Close, observed
<1>1. PICK d \in Deal, u \in User :
        \/ CancelPendingTopup(d, u)
        \/ AcceptDeal(d, u)
        \/ DeclineDeal(d, u)
        \/ FinishDeal(d, u)
        \/ RequestCancel(d, u)
        \/ RevokeCancel(d, u)
        \/ AcceptCancel(d, u)
        \/ StartArbitration(d, u)
  BY DEF Participant
<1>2. CASE CancelPendingTopup(d, u)
  BY <1>2, InvoicingExpire DEF CancelPendingTopup
<1>3. CASE ~CancelPendingTopup(d, u)
  <2>1. PICK x \in {"in_progress", "cancelled", "completed",
                    "pending_cancellation", "arbitration"} :
          /\ status' = [status EXCEPT ![d] = x]
          /\ status[d] \in {"pending_confirmation", "in_progress",
                            "pending_cancellation"}
          /\ UNCHANGED <<terms, commission_paid, topup, invoice, forced>>
    BY <1>1, <1>3 DEF AcceptDeal, DeclineDeal, FinishDeal, RequestCancel,
         RevokeCancel, AcceptCancel, StartArbitration, ArbitrationEligible
  <2>2. \A e \in Deal : status'[e] = IF e = d THEN x ELSE status[e]
    BY <2>1 DEF TypeOK
  <2> QED BY <2>1, <2>2, InvoicingStay DEF CommissionDue
<1> QED BY <1>2, <1>3

(* An admin closes a deal that is not waiting, deletes one together with   *)
(* the links of its invoices, or forces a waiting one into arbitration.    *)
LEMMA InvoicingAdmin ==
  ASSUME Rows, Invoicing, Admin PROVE Invoicing'
<1> USE DEF Rows, Close, observed
<1>1. PICK d \in Deal :
        \/ ResolveForBuyer(d)
        \/ ResolveForSeller(d)
        \/ ForceRelease(d)
        \/ ForceRefund(d)
        \/ ForceArbitration(d)
        \/ DeleteDeal(d)
        \/ \E percent \in Percents : SplitDeal(d, percent)
  BY DEF Admin
<1>2. CASE ForceArbitration(d)
  <2>1. /\ \A e \in Deal : status'[e] = IF e = d THEN "arbitration" ELSE status[e]
        /\ forced[d] # "unfunded"
        /\ UNCHANGED <<terms, commission_paid, topup, invoice>>
    BY <1>2 DEF ForceArbitration, RowsOK, Disputed, Terminal, Active, TypeOK
  <2>2. \A e \in Deal : forced'[e] = IF e = d
                                     THEN IF status[d] = "pending_topup"
                                          THEN "unfunded" ELSE "funded"
                                     ELSE forced[e]
    BY <1>2 DEF ForceArbitration, TypeOK
  <2> QED BY <2>1, <2>2, InvoicingStay DEF CommissionDue
<1>3. CASE DeleteDeal(d)
  <2>1. /\ \A e \in Deal : status'[e] = IF e = d THEN "deleted" ELSE status[e]
        /\ UNCHANGED <<terms, commission_paid, topup, forced>>
    BY <1>3 DEF DeleteDeal, TypeOK
  <2>2. \A k \in Invoice :
          /\ invoice'[k].status = invoice[k].status
          /\ invoice'[k].deal = IF invoice[k].deal = d THEN None ELSE invoice[k].deal
          /\ invoice'[k].total = invoice[k].total
    <3> SUFFICES ASSUME NEW k \in Invoice
                 PROVE  /\ invoice'[k].status = invoice[k].status
                        /\ invoice'[k].deal = IF invoice[k].deal = d THEN None
                                              ELSE invoice[k].deal
                        /\ invoice'[k].total = invoice[k].total
      OBVIOUS
    <3>1. invoice'[k] = IF invoice[k].deal = d
                        THEN [invoice[k] EXCEPT !.deal = None] ELSE invoice[k]
      BY <1>3 DEF DeleteDeal
    <3>2. invoice[k] \in InvoiceRow
      BY DEF TypeOK
    <3> QED BY <3>1, <3>2 DEF InvoiceRow
  <2>3. None \notin Deal
    BY EscrowAssumption DEF Deal, None
  <2>4. WaitingInvoiced'
    <3> SUFFICES ASSUME NEW e \in Deal, status'[e] = "pending_topup"
                 PROVE  /\ topup'[e] \in Invoice
                        /\ invoice'[topup'[e]].deal = e
                        /\ invoice'[topup'[e]].status \in Unpaid
                        /\ invoice'[topup'[e]].total >= CommissionDue(e)'
      BY DEF WaitingInvoiced
    <3>1. e # d /\ status[e] = "pending_topup"
      BY <2>1
    <3> QED BY <3>1, <2>1, <2>2 DEF Invoicing, WaitingInvoiced, CommissionDue
  <2>5. CurrentOnly'
    BY <2>1, <2>2, <2>3 DEF Invoicing, CurrentOnly
  <2>6. OpenAwaited'
    BY <2>1, <2>2, <2>3 DEF Invoicing, OpenAwaited
  <2> QED BY <2>4, <2>5, <2>6 DEF Invoicing
<1>4. CASE ~ForceArbitration(d) /\ ~DeleteDeal(d)
  <2>1. PICK x \in {"resolved_for_buyer", "resolved_for_seller"} :
          /\ status' = [status EXCEPT ![d] = x]
          /\ status[d] \in Active
          /\ UNCHANGED <<terms, commission_paid, topup, invoice, forced>>
    BY <1>1, <1>4 DEF ResolveForBuyer, ResolveForSeller, ForceRelease,
         ForceRefund, SplitDeal, HoldsMoney, Active
  <2>2. /\ \A e \in Deal : status'[e] = IF e = d THEN x ELSE status[e]
        /\ status[d] # "pending_topup"
    BY <2>1 DEF TypeOK, Active
  <2> QED BY <2>1, <2>2, InvoicingStay DEF CommissionDue
<1> QED BY <1>2, <1>3, <1>4

(* The sweeps close waiting deals with their invoices, and expire invoices *)
(* of deals that go on waiting.                                            *)
LEMMA InvoicingSweep ==
  ASSUME Rows, Invoicing, Sweep PROVE Invoicing'
<1> USE DEF Rows, Close, dealVars, observed
<1>1. ASSUME NEW d \in Deal, SweepPendingTopup(d)
      PROVE  Invoicing'
  BY <1>1, InvoicingExpire DEF SweepPendingTopup
<1>2. ASSUME NEW d \in Deal, SweepInactivity(d)
      PROVE  Invoicing'
  <2>1. PICK x \in {"cancelled_for_inactivity", "cancelled"} :
          /\ status' = [status EXCEPT ![d] = x]
          /\ status[d] \in SweptStatuses
          /\ UNCHANGED <<terms, commission_paid, topup, invoice, forced>>
    BY <1>2 DEF SweepInactivity
  <2>2. \A e \in Deal : status'[e] = IF e = d THEN x ELSE status[e]
    BY <2>1 DEF TypeOK
  <2> QED BY <2>1, <2>2, InvoicingStay DEF CommissionDue, SweptStatuses
<1>3. ASSUME NEW i \in Invoice, SweepExpiredDeposit(i)
      PROVE  Invoicing'
  <2>1. /\ invoice[i].status = "pending"
        /\ UNCHANGED <<status, terms, commission_paid, topup, forced>>
    BY <1>3 DEF SweepExpiredDeposit
  <2>2. \A k \in Invoice :
          /\ invoice'[k].status = IF k = i THEN "expired" ELSE invoice[k].status
          /\ invoice'[k].deal = invoice[k].deal
          /\ invoice'[k].total = invoice[k].total
    BY <1>3, InvoiceSet DEF SweepExpiredDeposit
  <2>3. WaitingInvoiced'
    <3> SUFFICES ASSUME NEW e \in Deal, status'[e] = "pending_topup"
                 PROVE  /\ topup'[e] \in Invoice
                        /\ invoice'[topup'[e]].deal = e
                        /\ invoice'[topup'[e]].status \in Unpaid
                        /\ invoice'[topup'[e]].total >= CommissionDue(e)'
      BY DEF WaitingInvoiced
    <3> QED BY <2>1, <2>2 DEF Invoicing, WaitingInvoiced, CommissionDue, Unpaid
  <2>4. CurrentOnly'
    BY <2>1, <2>2 DEF Invoicing, CurrentOnly, Unpaid
  <2>5. OpenAwaited'
    BY <2>1, <2>2 DEF Invoicing, OpenAwaited
  <2> QED BY <2>3, <2>4, <2>5 DEF Invoicing
<1> QED BY <1>1, <1>2, <1>3 DEF Sweep

(* Invoicing is inductive together with the types, the rows and            *)
(* InvoicedDeals, by which no invoice waits for a row still to be inserted. *)
THEOREM InvoicesAreDisciplined == Spec => []InvoiceDiscipline
<1> DEFINE Inv == InvoicedDeals /\ Invoicing
<1>1. Init => Inv
  BY DEF Init, InvoicedDeals, Invoicing, WaitingInvoiced, CurrentOnly,
         OpenAwaited, Unpaid
<1>2. ASSUME Rows, Rows', [Next]_vars, Inv
      PROVE  Inv'
  <2>1. InvoicedDeals'
    BY <1>2, InvoicedStep
  <2>2. ASSUME UNCHANGED <<status, terms, commission_paid, topup, invoice, forced>>
        PROVE  Invoicing'
    BY <1>2, <2>2, InvoicingStay DEF CommissionDue
  <2>3. CASE UNCHANGED vars
    BY <2>1, <2>2, <2>3 DEF vars, dealVars, observed
  <2>4. CASE Border
    <3>1. UNCHANGED <<status, terms, commission_paid, topup, invoice, forced>>
      BY <2>4 DEF Border, WalletCredit, AdjustDown, HoldWithdrawal,
           SendWithdrawal, RejectWithdrawal, dealVars, observed
    <3> QED BY <2>1, <2>2, <3>1
  <2> QED BY <1>2, <2>1, <2>3, <2>4, InvoicingCreation, InvoicingPayment,
             InvoicingParticipant, InvoicingAdmin, InvoicingSweep DEF Next
<1>3. Rows /\ Inv => InvoiceDiscipline
  <2> SUFFICES ASSUME Rows, Inv
               PROVE  InvoiceDiscipline
    OBVIOUS
  <2>1. \A i \in Invoice : i # None
    BY EscrowAssumption DEF Invoice, None
  <2> QED BY <2>1 DEF Invoicing, WaitingInvoiced, CurrentOnly, OpenAwaited,
                      Unpaid, InvoiceDiscipline
<1> QED BY <1>1, <1>2, <1>3, RowsCorrect, PTL DEF Spec

-----------------------------------------------------------------------------
(* OutcomesCounted.                                                        *)

(* The statuses of a deal whose outcome is still to be counted.            *)
Undecided == {"in_progress", "pending_cancellation", "arbitration"}

UndecidedOf(u) == {d \in Deal : u \in Parties(d) /\ status[d] \in Undecided}
ForcedOf(u) == {d \in Deal : u \in Parties(d) /\ forced[d] # "no"}

(* A deal an admin forced into arbitration, paid for or not, never goes    *)
(* back to a live status.                                                  *)
ForcedDisputed == \A d \in Deal : forced[d] # "no" => status[d] \in Disputed

(* OutcomesCounted, with the outcomes that are still to come.              *)
OutcomesOwed ==
  \A u \in User :
    (stats["success"][u] + stats["failed"][u]) + Cardinality(UndecidedOf(u)) <=
      stats["total"][u] + Cardinality(ForcedOf(u))

(* Two sets of deals that differ at most in d.                             *)
LEMMA DealCount ==
  ASSUME NEW S \in SUBSET Deal, NEW T \in SUBSET Deal, NEW d \in Deal,
         S \ {d} = T \ {d}
  PROVE  /\ Cardinality(S) \in Nat /\ Cardinality(T) \in Nat
         /\ (d \in S <=> d \in T) => Cardinality(T) = Cardinality(S)
         /\ d \notin S /\ d \in T => Cardinality(T) = Cardinality(S) + 1
         /\ d \in S /\ d \notin T => Cardinality(T) = Cardinality(S) - 1
<1>1. IsFiniteSet(Deal)
  <2>1. IsFiniteSet(1..NDeals)
    BY EscrowAssumption, FS_Interval
  <2> QED BY <2>1 DEF Deal
<1>2. IsFiniteSet(S) /\ IsFiniteSet(T)
  BY <1>1, FS_Subset
<1>3. /\ Cardinality(S \ {d}) = IF d \in S THEN Cardinality(S) - 1 ELSE Cardinality(S)
      /\ Cardinality(T \ {d}) = IF d \in T THEN Cardinality(T) - 1 ELSE Cardinality(T)
  BY <1>2, FS_RemoveElement
<1>4. Cardinality(S) \in Nat /\ Cardinality(T) \in Nat
  BY <1>2, FS_CardinalityType
<1> QED BY <1>3, <1>4

(* The number of deals of a user is a natural number.                      *)
LEMMA CountType ==
  ASSUME NEW u
  PROVE  Cardinality(UndecidedOf(u)) \in Nat /\ Cardinality(ForcedOf(u)) \in Nat
<1>1. IsFiniteSet(1..NDeals)
  BY EscrowAssumption, FS_Interval
<1>2. IsFiniteSet(UndecidedOf(u)) /\ IsFiniteSet(ForcedOf(u))
  BY <1>1, FS_Subset DEF UndecidedOf, ForcedOf, Deal
<1> QED BY <1>2, FS_CardinalityType

(* The counters of a user are natural numbers.                             *)
LEMMA CounterType ==
  ASSUME TypeOK, NEW u \in User
  PROVE  /\ stats["success"][u] \in Nat /\ stats["failed"][u] \in Nat
         /\ stats["total"][u] \in Nat
BY DEF TypeOK, Outcome

(* What one step adds to the counters of u, against the deals of u that it *)
(* takes out of Undecided or into it, and that it marks as forced.         *)
Gain(k, u) == stats'[k][u] - stats[k][u]

LEMMA OwedStep ==
  ASSUME TypeOK, TypeOK', OutcomesOwed, NEW d \in Deal,
         \A e \in Deal \ {d} : /\ status'[e] = status[e]
                               /\ terms'[e] = terms[e]
                               /\ forced'[e] = forced[e],
         terms'[d] = terms[d] \/ (/\ status[d] \notin Undecided
                                  /\ status'[d] \notin Undecided
                                  /\ forced[d] = "no" /\ forced'[d] = "no"),
         NEW u \in User,
         LET moved == (IF u \in Parties(d)' /\ status'[d] \in Undecided THEN 1 ELSE 0)
                      - (IF u \in Parties(d) /\ status[d] \in Undecided THEN 1 ELSE 0)
             marked == (IF u \in Parties(d)' /\ forced'[d] # "no" THEN 1 ELSE 0)
                       - (IF u \in Parties(d) /\ forced[d] # "no" THEN 1 ELSE 0)
         IN  (Gain("success", u) + Gain("failed", u)) + moved
               <= Gain("total", u) + marked
  PROVE  (stats'["success"][u] + stats'["failed"][u]) + Cardinality(UndecidedOf(u)')
           <= stats'["total"][u] + Cardinality(ForcedOf(u)')
<1> DEFINE S == UndecidedOf(u)
           T == UndecidedOf(u)'
           F == ForcedOf(u)
           G == ForcedOf(u)'
           was == u \in Parties(d) /\ status[d] \in Undecided
           is == u \in Parties(d)' /\ status'[d] \in Undecided
           wasForced == u \in Parties(d) /\ forced[d] # "no"
           isForced == u \in Parties(d)' /\ forced'[d] # "no"
<1>1. /\ S \in SUBSET Deal /\ T \in SUBSET Deal
      /\ F \in SUBSET Deal /\ G \in SUBSET Deal
  BY DEF UndecidedOf, ForcedOf
<1>2. S \ {d} = T \ {d} /\ F \ {d} = G \ {d}
  BY DEF UndecidedOf, ForcedOf, Parties
<1>3. /\ d \in S <=> was
      /\ d \in T <=> is
      /\ d \in F <=> wasForced
      /\ d \in G <=> isForced
  BY DEF UndecidedOf, ForcedOf
<1>4. /\ stats["success"][u] \in Nat /\ stats["failed"][u] \in Nat
      /\ stats["total"][u] \in Nat
      /\ stats'["success"][u] \in Nat /\ stats'["failed"][u] \in Nat
      /\ stats'["total"][u] \in Nat
  BY DEF TypeOK, Outcome
<1>5. (stats["success"][u] + stats["failed"][u]) + Cardinality(S)
        <= stats["total"][u] + Cardinality(F)
  BY DEF OutcomesOwed
<1>6. (Gain("success", u) + Gain("failed", u))
        + ((IF is THEN 1 ELSE 0) - (IF was THEN 1 ELSE 0))
          <= Gain("total", u)
             + ((IF isForced THEN 1 ELSE 0) - (IF wasForced THEN 1 ELSE 0))
  OBVIOUS
<1> HIDE DEF S, T, F, G, was, is, wasForced, isForced
<1>7. /\ Cardinality(S) \in Nat /\ Cardinality(T) \in Nat
      /\ Cardinality(T) = Cardinality(S)
           + ((IF is THEN 1 ELSE 0) - (IF was THEN 1 ELSE 0))
  BY <1>1, <1>2, <1>3, DealCount
<1>8. /\ Cardinality(F) \in Nat /\ Cardinality(G) \in Nat
      /\ Cardinality(G) = Cardinality(F)
           + ((IF isForced THEN 1 ELSE 0) - (IF wasForced THEN 1 ELSE 0))
  BY <1>1, <1>2, <1>3, DealCount
<1> DEFINE m == (IF is THEN 1 ELSE 0) - (IF was THEN 1 ELSE 0)
           n == (IF isForced THEN 1 ELSE 0) - (IF wasForced THEN 1 ELSE 0)
<1>9. m \in Int /\ n \in Int
  OBVIOUS
<1> HIDE DEF m, n
<1>10. (stats'["success"][u] + stats'["failed"][u]) + Cardinality(T)
         <= stats'["total"][u] + Cardinality(G)
  BY <1>4, <1>5, <1>6, <1>7, <1>8, <1>9 DEF m, n, Gain
<1> QED BY <1>10 DEF T, G

Counting == ForcedDisputed /\ OutcomesOwed

(* A step that touches neither deals nor the three counters.               *)
LEMMA CountingStay ==
  ASSUME Counting, UNCHANGED <<status, terms, stats, forced>>
  PROVE  Counting'
<1>1. ForcedDisputed'
  BY DEF Counting, ForcedDisputed, Disputed
<1>2. ASSUME NEW u
      PROVE  UndecidedOf(u)' = UndecidedOf(u) /\ ForcedOf(u)' = ForcedOf(u)
  BY DEF UndecidedOf, ForcedOf, Parties
<1>3. OutcomesOwed'
  BY <1>2 DEF Counting, OutcomesOwed
<1> QED BY <1>1, <1>3 DEF Counting

(* A step that moves a deal and settles what its parties are owed for it.  *)
LEMMA CountingMove ==
  ASSUME Rows, Rows', Counting, NEW d \in Deal, NEW x,
         status' = [status EXCEPT ![d] = x],
         UNCHANGED <<terms, forced>>,
         status[d] \in Disputed => x \in Disputed,
         \A u \in User :
           (Gain("success", u) + Gain("failed", u))
             + ((IF u \in Parties(d) /\ x \in Undecided THEN 1 ELSE 0)
                - (IF u \in Parties(d) /\ status[d] \in Undecided THEN 1 ELSE 0))
             <= Gain("total", u)
  PROVE  Counting'
<1> USE DEF Rows
<1>1. \A e \in Deal : status'[e] = IF e = d THEN x ELSE status[e]
  BY DEF TypeOK
<1>2. ForcedDisputed'
  BY <1>1 DEF Counting, ForcedDisputed, Disputed
<1>3. ASSUME NEW u \in User
      PROVE  (stats'["success"][u] + stats'["failed"][u])
               + Cardinality(UndecidedOf(u)')
               <= stats'["total"][u] + Cardinality(ForcedOf(u)')
  <2>1. Parties(d)' = Parties(d)
    BY DEF Parties
  <2> DEFINE m == (IF u \in Parties(d)' /\ status'[d] \in Undecided THEN 1 ELSE 0)
                  - (IF u \in Parties(d) /\ status[d] \in Undecided THEN 1 ELSE 0)
             n == (IF u \in Parties(d)' /\ forced'[d] # "no" THEN 1 ELSE 0)
                  - (IF u \in Parties(d) /\ forced[d] # "no" THEN 1 ELSE 0)
  <2>2. (Gain("success", u) + Gain("failed", u)) + m <= Gain("total", u)
    BY <1>1, <2>1
  <2>3. n = 0
    BY <2>1
  <2>4. Gain("total", u) \in Int
    BY DEF TypeOK, Outcome, Gain
  <2> HIDE DEF m, n
  <2>5. (Gain("success", u) + Gain("failed", u)) + m <= Gain("total", u) + n
    BY <2>2, <2>3, <2>4
  <2> USE DEF m, n
  <2> QED BY <1>1, <2>5, OwedStep DEF Counting
<1> QED BY <1>2, <1>3 DEF Counting, OutcomesOwed

(* What Bump adds to a counter.                                            *)
LEMMA BumpGain ==
  ASSUME TypeOK, NEW k \in Outcome, NEW S, stats'[k] = Bump(stats[k], S),
         NEW u \in User
  PROVE  Gain(k, u) = IF u \in S THEN 1 ELSE 0
<1>1. stats[k][u] \in Nat
  BY DEF TypeOK
<1>2. stats'[k][u] = stats[k][u] + IF u \in S THEN 1 ELSE 0
  BY DEF Bump
<1> QED BY <1>1, <1>2 DEF Gain

(* A counter left alone gains nothing.                                     *)
LEMMA NoGain ==
  ASSUME TypeOK, NEW k \in Outcome, stats'[k] = stats[k], NEW u \in User
  PROVE  Gain(k, u) = 0
<1>1. stats[k][u] \in Nat
  BY DEF TypeOK
<1> QED BY <1>1 DEF Gain

(* A step that counts nothing and takes no deal into Undecided.            *)
LEMMA CountingClose ==
  ASSUME Rows, Rows', Counting, NEW d \in Deal, NEW x,
         status' = [status EXCEPT ![d] = x],
         UNCHANGED <<terms, forced>>,
         status[d] \in Disputed => x \in Disputed,
         x \in Undecided => status[d] \in Undecided,
         \A k \in {"success", "failed", "total"} : stats'[k] = stats[k]
  PROVE  Counting'
<1>1. ASSUME NEW u \in User
      PROVE  /\ Gain("success", u) = 0 /\ Gain("failed", u) = 0
             /\ Gain("total", u) = 0
  BY NoGain DEF Rows, Outcome
<1>2. ASSUME NEW u \in User
      PROVE  (Gain("success", u) + Gain("failed", u))
               + ((IF u \in Parties(d) /\ x \in Undecided THEN 1 ELSE 0)
                  - (IF u \in Parties(d) /\ status[d] \in Undecided THEN 1 ELSE 0))
               <= Gain("total", u)
  BY <1>1
<1> QED BY <1>2, CountingMove

(* A new row is neither undecided nor forced.                              *)
LEMMA CountingCreation ==
  ASSUME Rows, Rows', Counting, Creation PROVE Counting'
<1> USE DEF Rows, observed
<1>1. PICK d \in Deal, b \in User, s \in User, a \in Amounts, rate \in Rates :
        \/ CreateFunded(d, b, s, a, rate)
        \/ \E i \in Invoice : CreatePendingTopup(d, b, s, a, rate, i)
  BY DEF Creation
<1>2. /\ status[d] = "none" /\ forced[d] = "no"
      /\ UNCHANGED <<stats, forced>>
  BY <1>1 DEF CreateFunded, CreatePendingTopup, IsNextDeal, RowsOK
<1>3. \/ \E paid, inv : InsertDeal(d, b, s, a, PercentOf(a, rate),
                                   "pending_confirmation", paid, inv)
      \/ \E paid, inv : InsertDeal(d, b, s, a, PercentOf(a, rate),
                                   "pending_topup", paid, inv)
  BY <1>1 DEF CreateFunded, CreatePendingTopup
<1>4. /\ \A e \in Deal \ {d} : status'[e] = status[e] /\ terms'[e] = terms[e]
      /\ status'[d] \in {"pending_confirmation", "pending_topup"}
  BY <1>3 DEF InsertDeal, TypeOK
<1>5. ForcedDisputed'
  BY <1>2, <1>4 DEF Counting, ForcedDisputed, Disputed
<1>6. status[d] \notin Undecided /\ status'[d] \notin Undecided
  BY <1>2, <1>4 DEF Undecided
<1>7. ASSUME NEW u \in User
      PROVE  (stats'["success"][u] + stats'["failed"][u])
               + Cardinality(UndecidedOf(u)')
               <= stats'["total"][u] + Cardinality(ForcedOf(u)')
  <2>1. /\ Gain("success", u) = 0 /\ Gain("failed", u) = 0
        /\ Gain("total", u) = 0
    BY <1>2, NoGain DEF Outcome
  <2> QED BY <1>2, <1>4, <1>6, <2>1, OwedStep DEF Counting
<1> QED BY <1>5, <1>7 DEF Counting, OutcomesOwed

(* A payment moves a deal at most to pending_confirmation.                 *)
LEMMA CountingPayment ==
  ASSUME Rows, Rows', Counting, TopupPayment PROVE Counting'
<1> USE DEF dealVars, observed
<1>1. \/ UNCHANGED <<status, terms, stats, forced>>
      \/ \E i \in Invoice, p \in Payments, d \in Deal : TopupActivates(i, p, d)
  BY DEF TopupPayment, TopupUnlinked, TopupLate, TopupBelowCommission,
         TopupShort
<1>2. ASSUME NEW i \in Invoice, NEW p \in Payments, NEW d \in Deal,
             TopupActivates(i, p, d)
      PROVE  Counting'
  <2>1. /\ status' = [status EXCEPT ![d] = "pending_confirmation"]
        /\ status[d] = "pending_topup"
        /\ UNCHANGED <<terms, forced, stats>>
    BY <1>2 DEF TopupActivates, PaidFor, Close
  <2>2. status[d] \notin Disputed /\ "pending_confirmation" \notin Undecided
    BY <2>1 DEF Disputed, Terminal, Undecided
  <2> QED BY <2>1, <2>2, CountingClose
<1> QED BY <1>1, <1>2, CountingStay

(* An accepted deal owes its parties an outcome; a finished one pays it.   *)
LEMMA CountingParticipant ==
  ASSUME Rows, Rows', Counting, Participant PROVE Counting'
<1> USE DEF Rows, Close, observed
<1>1. PICK d \in Deal, u \in User :
        \/ CancelPendingTopup(d, u)
        \/ AcceptDeal(d, u)
        \/ DeclineDeal(d, u)
        \/ FinishDeal(d, u)
        \/ RequestCancel(d, u)
        \/ RevokeCancel(d, u)
        \/ AcceptCancel(d, u)
        \/ StartArbitration(d, u)
  BY DEF Participant
<1>2. CASE AcceptDeal(d, u)
  <2>1. /\ status[d] = "pending_confirmation"
        /\ status' = [status EXCEPT ![d] = "in_progress"]
        /\ UNCHANGED <<terms, forced>>
        /\ stats'["total"] = Bump(stats["total"], Parties(d))
        /\ stats'["success"] = stats["success"]
        /\ stats'["failed"] = stats["failed"]
    BY <1>2 DEF AcceptDeal, TypeOK, Outcome
  <2>2. status[d] \notin Disputed
    BY <2>1 DEF Disputed, Terminal
  <2>3. ASSUME NEW v \in User
        PROVE  (Gain("success", v) + Gain("failed", v))
                 + ((IF v \in Parties(d) /\ "in_progress" \in Undecided THEN 1 ELSE 0)
                    - (IF v \in Parties(d) /\ status[d] \in Undecided THEN 1 ELSE 0))
                 <= Gain("total", v)
    <3>1. /\ Gain("success", v) = 0 /\ Gain("failed", v) = 0
          /\ Gain("total", v) = IF v \in Parties(d) THEN 1 ELSE 0
      BY <2>1, NoGain, BumpGain DEF Outcome
    <3> QED BY <2>1, <3>1 DEF Undecided
  <2> QED BY <2>1, <2>2, <2>3, CountingMove
<1>3. CASE FinishDeal(d, u)
  <2>1. /\ status[d] = "in_progress"
        /\ status' = [status EXCEPT ![d] = "completed"]
        /\ UNCHANGED <<terms, forced>>
        /\ stats'["success"] = Bump(stats["success"], Parties(d))
        /\ stats'["total"] = stats["total"]
        /\ stats'["failed"] = stats["failed"]
    BY <1>3 DEF FinishDeal, TypeOK, Outcome
  <2>2. status[d] \notin Disputed
    BY <2>1 DEF Disputed, Terminal
  <2>3. ASSUME NEW v \in User
        PROVE  (Gain("success", v) + Gain("failed", v))
                 + ((IF v \in Parties(d) /\ "completed" \in Undecided THEN 1 ELSE 0)
                    - (IF v \in Parties(d) /\ status[d] \in Undecided THEN 1 ELSE 0))
                 <= Gain("total", v)
    <3>1. /\ Gain("total", v) = 0 /\ Gain("failed", v) = 0
          /\ Gain("success", v) = IF v \in Parties(d) THEN 1 ELSE 0
      BY <2>1, NoGain, BumpGain DEF Outcome
    <3> QED BY <2>1, <3>1 DEF Undecided
  <2> QED BY <2>1, <2>2, <2>3, CountingMove
<1>4. CASE StartArbitration(d, u)
  <2>1. /\ status[d] \in ArbitrationEligible
        /\ status' = [status EXCEPT ![d] = "arbitration"]
        /\ UNCHANGED <<terms, forced>>
        /\ \A k \in {"success", "failed", "total"} : stats'[k] = stats[k]
    BY <1>4 DEF StartArbitration, TypeOK, Outcome
  <2>2. status[d] \notin Disputed /\ status[d] \in Undecided
    BY <2>1 DEF Disputed, Terminal, ArbitrationEligible, Undecided
  <2> QED BY <2>1, <2>2, CountingClose
<1>5. CASE ~AcceptDeal(d, u) /\ ~FinishDeal(d, u) /\ ~StartArbitration(d, u)
  <2>1. PICK x \in {"cancelled", "pending_cancellation", "in_progress"} :
          /\ status' = [status EXCEPT ![d] = x]
          /\ status[d] \in {"pending_topup", "pending_confirmation",
                            "in_progress", "pending_cancellation"}
          /\ x = "cancelled" \/ status[d] \in {"in_progress", "pending_cancellation"}
          /\ UNCHANGED <<terms, forced, stats>>
    BY <1>1, <1>5 DEF CancelPendingTopup, DeclineDeal, RequestCancel,
                      RevokeCancel, AcceptCancel
  <2>2. /\ status[d] \notin Disputed
        /\ x \in Undecided => status[d] \in Undecided
    BY <2>1 DEF Disputed, Terminal, Undecided
  <2> QED BY <2>1, <2>2, CountingClose
<1> QED BY <1>2, <1>3, <1>4, <1>5

(* A verdict counts one outcome for each of the two parties.               *)
LEMMA CountingVerdict ==
  ASSUME Rows, Rows', Counting, NEW d \in Deal,
         ResolveForBuyer(d) \/ ResolveForSeller(d)
  PROVE  Counting'
<1> USE DEF Rows, Close, observed
<1>1. PICK x \in {"resolved_for_buyer", "resolved_for_seller"} :
        /\ status' = [status EXCEPT ![d] = x]
        /\ status[d] = "arbitration"
        /\ UNCHANGED <<terms, forced>>
  BY DEF ResolveForBuyer, ResolveForSeller
<1>2. PICK b, s :
        /\ {b, s} = Parties(d) /\ b # s
        /\ stats'["success"] = Bump(stats["success"], {b})
        /\ stats'["failed"] = Bump(stats["failed"], {s})
        /\ stats'["total"] = stats["total"]
  <2>1. terms[d].buyer # terms[d].seller
    BY <1>1 DEF RowsOK
  <2>2. CASE ResolveForBuyer(d)
    <3>1. stats' = [stats EXCEPT !["success"] = Bump(@, {terms[d].buyer}),
                                 !["failed"] = Bump(@, {terms[d].seller})]
      BY <2>2 DEF ResolveForBuyer
    <3> QED BY <2>1, <3>1 DEF Parties, TypeOK, Outcome
  <2>3. CASE ResolveForSeller(d)
    <3>1. stats' = [stats EXCEPT !["success"] = Bump(@, {terms[d].seller}),
                                 !["failed"] = Bump(@, {terms[d].buyer})]
      BY <2>3 DEF ResolveForSeller
    <3>2. {terms[d].seller, terms[d].buyer} = Parties(d)
      BY DEF Parties
    <3> QED BY <2>1, <3>1, <3>2 DEF TypeOK, Outcome
  <2> QED BY <2>2, <2>3
<1>3. status[d] \in Disputed => x \in Disputed
  BY <1>1 DEF Disputed, Terminal
<1>4. ASSUME NEW v \in User
      PROVE  (Gain("success", v) + Gain("failed", v))
               + ((IF v \in Parties(d) /\ x \in Undecided THEN 1 ELSE 0)
                  - (IF v \in Parties(d) /\ status[d] \in Undecided THEN 1 ELSE 0))
               <= Gain("total", v)
  <2>1. /\ Gain("total", v) = 0
        /\ Gain("success", v) = IF v \in {b} THEN 1 ELSE 0
        /\ Gain("failed", v) = IF v \in {s} THEN 1 ELSE 0
    BY <1>2, NoGain, BumpGain DEF Outcome
  <2>2. x \notin Undecided /\ status[d] \in Undecided
    BY <1>1 DEF Undecided
  <2> QED BY <1>2, <2>1, <2>2
<1> QED BY <1>1, <1>3, <1>4, CountingMove

(* A deal forced into arbitration is marked the moment it is owed.         *)
LEMMA CountingForced ==
  ASSUME Rows, Rows', Counting, NEW d \in Deal, ForceArbitration(d)
  PROVE  Counting'
<1> USE DEF Rows
<1>1. /\ status[d] \in (Active \ {"arbitration"}) \cup {"pending_topup"}
      /\ \A e \in Deal : status'[e] = IF e = d THEN "arbitration" ELSE status[e]
      /\ \A e \in Deal \ {d} : forced'[e] = forced[e]
      /\ forced'[d] \in {"unfunded", "funded"}
      /\ UNCHANGED <<terms, stats>>
  BY DEF ForceArbitration, TypeOK
<1>2. forced[d] = "no"
  BY <1>1 DEF Counting, ForcedDisputed, Disputed, Terminal, Active
<1>3. ForcedDisputed'
  BY <1>1 DEF Counting, ForcedDisputed, Disputed
<1>4. ASSUME NEW u \in User
      PROVE  (stats'["success"][u] + stats'["failed"][u])
               + Cardinality(UndecidedOf(u)')
               <= stats'["total"][u] + Cardinality(ForcedOf(u)')
  <2>1. /\ Gain("success", u) = 0 /\ Gain("failed", u) = 0
        /\ Gain("total", u) = 0
    BY <1>1, NoGain DEF Outcome
  <2>2. Parties(d)' = Parties(d) /\ forced'[d] # "no"
    BY <1>1 DEF Parties
  <2> QED BY <1>1, <1>2, <2>1, <2>2, OwedStep DEF Counting
<1> QED BY <1>3, <1>4 DEF Counting, OutcomesOwed

(* What an admin does.                                                     *)
LEMMA CountingAdmin ==
  ASSUME Rows, Rows', Counting, Admin PROVE Counting'
<1> USE DEF Rows, Close, observed
<1>1. PICK d \in Deal :
        \/ ResolveForBuyer(d)
        \/ ResolveForSeller(d)
        \/ ForceRelease(d)
        \/ ForceRefund(d)
        \/ ForceArbitration(d)
        \/ DeleteDeal(d)
        \/ \E percent \in Percents : SplitDeal(d, percent)
  BY DEF Admin
<1>2. CASE \/ ForceRelease(d) \/ ForceRefund(d) \/ DeleteDeal(d)
           \/ \E percent \in Percents : SplitDeal(d, percent)
  <2>1. PICK x \in {"resolved_for_buyer", "resolved_for_seller", "deleted"} :
          /\ status' = [status EXCEPT ![d] = x]
          /\ UNCHANGED <<terms, forced, stats>>
    BY <1>2 DEF ForceRelease, ForceRefund, DeleteDeal, SplitDeal
  <2>2. x \in Disputed /\ x \notin Undecided
    BY <2>1 DEF Disputed, Terminal, Undecided
  <2> QED BY <2>1, <2>2, CountingClose
<1> QED BY <1>1, <1>2, CountingVerdict, CountingForced

(* What the sweeps do.                                                     *)
LEMMA CountingSweep ==
  ASSUME Rows, Rows', Counting, Sweep PROVE Counting'
<1> USE DEF Close, dealVars, observed
<1>1. ASSUME NEW d \in Deal, SweepPendingTopup(d) \/ SweepInactivity(d)
      PROVE  Counting'
  <2>1. PICK x \in {"cancelled_for_inactivity", "cancelled"} :
          /\ status' = [status EXCEPT ![d] = x]
          /\ UNCHANGED <<terms, forced, stats>>
    BY <1>1 DEF SweepPendingTopup, SweepInactivity
  <2>2. x \in Disputed /\ x \notin Undecided
    BY <2>1 DEF Disputed, Terminal, Undecided
  <2> QED BY <2>1, <2>2, CountingClose
<1>2. ASSUME NEW i \in Invoice, SweepExpiredDeposit(i)
      PROVE  Counting'
  BY <1>2, CountingStay DEF SweepExpiredDeposit
<1> QED BY <1>1, <1>2 DEF Sweep

(* No user's success and failure counters together exceed the deals it     *)
(* accepted or was forced past acceptance in, whatever the order in which  *)
(* verdicts, completions, sweeps and an admin's decisions reach a deal:    *)
(* each undecided deal is counted at most once.                            *)
THEOREM OutcomesAreCounted == Spec => []OutcomesCounted
<1>1. Init => Counting
  <2> SUFFICES ASSUME Init PROVE Counting
    OBVIOUS
  <2>1. ASSUME NEW u \in User
        PROVE  UndecidedOf(u) = {} /\ ForcedOf(u) = {}
    BY DEF Init, UndecidedOf, ForcedOf, Undecided
  <2>2. \A u \in User : /\ stats["success"][u] = 0 /\ stats["failed"][u] = 0
                        /\ stats["total"][u] = 0
    BY DEF Init, Outcome
  <2>3. OutcomesOwed
    BY <2>1, <2>2, FS_EmptySet DEF OutcomesOwed
  <2>4. ForcedDisputed
    BY DEF Init, ForcedDisputed
  <2> QED BY <2>3, <2>4 DEF Counting
<1>2. ASSUME Rows, Rows', [Next]_vars, Counting
      PROVE  Counting'
  <2>1. CASE UNCHANGED vars
    BY <1>2, <2>1, CountingStay DEF vars, dealVars, observed
  <2>2. CASE Border
    <3>1. UNCHANGED <<status, terms, stats, forced>>
      BY <2>2 DEF Border, WalletCredit, AdjustDown, HoldWithdrawal,
           SendWithdrawal, RejectWithdrawal, dealVars, observed
    <3> QED BY <3>1, <1>2, CountingStay
  <2> QED BY <1>2, <2>1, <2>2, CountingCreation, CountingPayment,
             CountingParticipant, CountingAdmin, CountingSweep DEF Next
<1>3. Rows /\ Counting => OutcomesCounted
  <2> SUFFICES ASSUME Rows, Counting, NEW u \in User
               PROVE  stats["success"][u] + stats["failed"][u] <=
                        stats["total"][u] + Cardinality(ForcedOf(u))
    BY DEF OutcomesCounted, ForcedOf
  <2>1. /\ stats["success"][u] \in Nat /\ stats["failed"][u] \in Nat
        /\ stats["total"][u] \in Nat
        /\ Cardinality(UndecidedOf(u)) \in Nat /\ Cardinality(ForcedOf(u)) \in Nat
    BY CounterType, CountType DEF Rows
  <2>2. (stats["success"][u] + stats["failed"][u]) + Cardinality(UndecidedOf(u)) <=
          stats["total"][u] + Cardinality(ForcedOf(u))
    BY DEF Counting, OutcomesOwed
  <2> QED BY <2>1, <2>2
<1> QED BY <1>1, <1>2, <1>3, RowsCorrect, PTL DEF Spec

-----------------------------------------------------------------------------
(* KeepsPromise.                                                           *)

(* A deal that exists has a price, and an invoice that was issued was      *)
(* issued for a user.                                                      *)
Priced == \A d \in Deal : status[d] # "none" => terms[d].amount > 0
Issued == \A i \in Invoice : invoice[i].status # "none" => User # {}

(* What holds of every state of Escrow while the discipline is kept.       *)
Disciplined == /\ Rows /\ EscrowBacked /\ InvoicedDeals
               /\ Priced /\ Issued /\ FundedOnly

(* What is left of the locked columns, the variable reserved of Promise.   *)
Reserved == [u \in User |-> locked[u] - HeldFor(u)]

(* It is what the withdrawals bind.                                        *)
LEMMA ReservedIsOnHold == Disciplined => Reserved = onHold
<1> SUFFICES ASSUME Disciplined PROVE Reserved = onHold
  OBVIOUS
<1> USE DEF Disciplined, Rows
<1>1. ASSUME NEW u \in User
      PROVE  locked[u] - HeldFor(u) = onHold[u]
  <2>1. locked[u] = onHold[u] + HeldFor(u)
    BY DEF EscrowBacked, Tainted, FundedOnly
  <2>2. HeldFor(u) \in Nat /\ onHold[u] \in Nat
    BY HeldForCovers DEF TypeOK
  <2> QED BY <2>1, <2>2
<1>2. [u \in User |-> locked[u] - HeldFor(u)] = [u \in User |-> onHold[u]]
  BY <1>1
<1> QED BY <1>2 DEF TypeOK, Reserved

(* Before a step and after it.                                             *)
LEMMA ReservedMoves ==
  ASSUME Disciplined, Disciplined'
  PROVE  Reserved = onHold /\ Reserved' = onHold'
<1>1. (Disciplined => Reserved = onHold)'
  BY ReservedIsOnHold, PTL
<1> QED BY <1>1, ReservedIsOnHold

(* The other variables of Promise.                                         *)
Pots == [d \in Deal |-> Held(d)]
Phases == [d \in Deal |-> PhaseOf(d)]
Couples == [d \in Deal |-> [buyer |-> terms[d].buyer,
                            seller |-> terms[d].seller]]

(* The phases of the statuses.                                             *)
LEMMA PhaseFacts ==
  ASSUME TypeOK, NEW d \in Deal
  PROVE  /\ status[d] = "none" => PhaseOf(d) = "none" /\ Held(d) = 0
         /\ status[d] = "pending_topup" => PhaseOf(d) = "open" /\ Held(d) = 0
         /\ status[d] \in Active => PhaseOf(d) = "funded" /\ Held(d) = terms[d].amount
         /\ status[d] \in Terminal \cup {"deleted"} =>
              PhaseOf(d) = "closed" /\ Held(d) = 0
BY DEF PhaseOf, Held, Active, Terminal

(* A step that leaves deals, balances and the flows of money alone, or     *)
(* moves deals within one phase, is a step that Promise does not see.      *)
LEMMA StutterStep ==
  ASSUME Disciplined, Disciplined',
         \A d \in Deal : PhaseOf(d)' = PhaseOf(d) /\ Held(d)' = Held(d),
         UNCHANGED <<terms, amount, onHold, net, fees, unattached>>
  PROVE  UNCHANGED Promise!vars
<1>1. Reserved' = Reserved
  BY ReservedMoves
<1>2. Pots' = Pots /\ Phases' = Phases /\ Couples' = Couples
  BY DEF Pots, Phases, Couples
<1> QED BY <1>1, <1>2 DEF Promise!vars, Pots, Phases, Couples, Reserved

(* A deal that is closed with its pot shared among the parties.            *)
LEMMA SettleStep ==
  ASSUME Disciplined, Disciplined', NEW d \in Deal, NEW x, NEW share,
         status[d] \in Active, x \in Terminal \cup {"deleted"},
         status' = [status EXCEPT ![d] = x],
         UNCHANGED <<terms, onHold, net, fees, unattached>>,
         share \in 0..terms[d].amount,
         amount' = [u \in User |->
                      IF u = terms[d].buyer THEN amount[u] + share
                      ELSE IF u = terms[d].seller
                      THEN amount[u] + (terms[d].amount - share)
                      ELSE amount[u]]
  PROVE  Promise!Settle(d)
<1> DEFINE b == terms[d].buyer
           s == terms[d].seller
           p == terms[d].amount
<1> USE DEF Disciplined, Rows
<1>1. b \in User /\ s \in User /\ b # s /\ p \in Nat
  BY TermType DEF RowsOK, Active
<1>2. amount \in [User -> Nat]
  BY DEF TypeOK
<1>3. /\ status'[d] = x
      /\ \A e \in Deal \ {d} : status'[e] = status[e]
  BY DEF TypeOK
<1>4. /\ PhaseOf(d) = "funded" /\ Held(d) = p
      /\ PhaseOf(d)' = "closed" /\ Held(d)' = 0
  BY <1>3, PhaseFacts DEF PhaseOf, Held, Active, Terminal
<1>5. \A e \in Deal \ {d} : PhaseOf(e)' = PhaseOf(e) /\ Held(e)' = Held(e)
  BY <1>3 DEF PhaseOf, Held
<1>6. /\ Phases' = [Phases EXCEPT ![d] = "closed"]
      /\ Pots' = [Pots EXCEPT ![d] = 0]
      /\ Couples' = Couples
  BY <1>4, <1>5 DEF Phases, Pots, Couples
<1>7. /\ Phases[d] = "funded" /\ Pots[d] = p
      /\ Couples[d].buyer = b /\ Couples[d].seller = s
  BY <1>4 DEF Phases, Pots, Couples
<1>8. Reserved' = Reserved
  BY ReservedMoves
<1>9. amount'[b] - amount[b] = share
  BY <1>1, <1>2
<1>10. amount' = [amount EXCEPT ![b] = @ + share, ![s] = @ + (p - share)]
  BY <1>1, <1>2
<1>11. 0 <= share /\ share <= p
  BY <1>1
<1> HIDE DEF b, s, p
<1> QED BY <1>6, <1>7, <1>8, <1>9, <1>10, <1>11
        DEF Promise!Settle, Phases, Pots, Couples, Reserved

(* A payment that is credited to u, less the commission kept of it.        *)
LEMMA PayInStep ==
  ASSUME Disciplined, Disciplined', NEW u \in User, NEW p \in Nat, NEW c \in 0..p,
         p > 0, net' = net + p,
         fees' + unattached' = (fees + unattached) + c,
         amount' = [amount EXCEPT ![u] = @ + (p - c)],
         UNCHANGED <<status, terms, onHold>>
  PROVE  Promise!PayIn(u)
<1> USE DEF Disciplined, Rows
<1>1. net \in Int /\ fees \in Nat /\ unattached \in Nat
  BY DEF TypeOK
<1>2. /\ net' > net /\ fees' + unattached' >= fees + unattached
      /\ (net' - net) - ((fees' + unattached') - (fees + unattached)) = p - c
      /\ p - c >= 0
  BY <1>1
<1>3. Reserved' = Reserved
  BY ReservedMoves
<1>4. Pots' = Pots /\ Phases' = Phases /\ Couples' = Couples
  BY DEF Pots, Phases, Couples, Held, PhaseOf
<1> QED BY <1>2, <1>3, <1>4
        DEF Promise!PayIn, Promise!Income, Pots, Phases, Couples, Reserved

(* Money crossing the border outside any deal.                             *)
LEMMA BorderPromised ==
  ASSUME Disciplined, Disciplined', Border PROVE Promise!Next
<1> USE DEF Disciplined, Rows
<1>1. PICK u \in User, x \in Transfers :
        \/ WalletCredit(u, x)
        \/ AdjustDown(u, x)
        \/ HoldWithdrawal(u, x)
        \/ SendWithdrawal(u, x)
        \/ RejectWithdrawal(u, x)
  BY DEF Border
<1>2. x \in Nat /\ x > 0
  BY EscrowAssumption
<1>3. /\ amount \in [User -> Nat] /\ onHold \in [User -> Nat]
      /\ net \in Int /\ fees \in Nat /\ unattached \in Nat
  BY DEF TypeOK
<1>4. /\ Pots' = Pots /\ Phases' = Phases /\ Couples' = Couples
      /\ Reserved = onHold /\ Reserved' = onHold'
  <2>1. UNCHANGED <<status, terms>>
    BY <1>1 DEF WalletCredit, AdjustDown, HoldWithdrawal, SendWithdrawal,
                RejectWithdrawal, dealVars
  <2> QED BY <2>1, ReservedMoves DEF Pots, Phases, Couples, Held, PhaseOf
<1>5. CASE WalletCredit(u, x)
  <2>1. /\ net' = net + x /\ UNCHANGED <<status, terms, onHold, fees, unattached>>
        /\ amount' = [amount EXCEPT ![u] = @ + x]
    BY <1>5 DEF WalletCredit, dealVars
  <2>2. /\ fees' + unattached' = (fees + unattached) + 0
        /\ x - 0 = x /\ 0 \in 0..x
    BY <2>1, <1>2, <1>3
  <2>3. Promise!PayIn(u)
    BY <2>1, <2>2, <1>2, PayInStep
  <2> QED BY <2>3 DEF Promise!Next
<1>6. CASE AdjustDown(u, x)
  <2>1. /\ net' = net - x /\ amount[u] >= x
        /\ amount' = [amount EXCEPT ![u] = @ - x]
        /\ UNCHANGED <<onHold, fees, unattached>>
    BY <1>6 DEF AdjustDown
  <2>2. /\ net' < net /\ amount[u] + (net' - net) = amount[u] - x
        /\ amount[u] - x >= 0
    BY <2>1, <1>2, <1>3
  <2>3. Promise!TakeBack(u)
    BY <2>1, <2>2, <1>3, <1>4
       DEF Promise!TakeBack, Pots, Phases, Couples, Reserved
  <2> QED BY <2>3 DEF Promise!Next
<1>7. CASE HoldWithdrawal(u, x)
  <2>1. /\ amount' = [amount EXCEPT ![u] = @ - x] /\ amount[u] >= x
        /\ onHold' = [onHold EXCEPT ![u] = @ + x]
        /\ UNCHANGED <<net, fees, unattached>>
    BY <1>7 DEF HoldWithdrawal, observed
  <2>2. /\ onHold'[u] = onHold[u] + x /\ onHold'[u] >= 0
        /\ amount'[u] >= 0
        /\ amount[u] - (onHold'[u] - onHold[u]) = amount[u] - x
    BY <2>1, <1>2, <1>3
  <2>3. Promise!Reserve(u)
    BY <2>1, <2>2, <1>4
       DEF Promise!Reserve, Pots, Phases, Couples, Reserved
  <2> QED BY <2>3 DEF Promise!Next
<1>8. CASE SendWithdrawal(u, x)
  <2>1. /\ net' = net - x /\ onHold[u] >= x
        /\ onHold' = [onHold EXCEPT ![u] = @ - x]
        /\ UNCHANGED <<amount, fees, unattached>>
    BY <1>8 DEF SendWithdrawal
  <2>2. /\ net' < net /\ onHold[u] + (net' - net) = onHold[u] - x
        /\ onHold'[u] >= 0
    BY <2>1, <1>2, <1>3
  <2>3. Promise!PayOut(u)
    BY <2>1, <2>2, <1>4
       DEF Promise!PayOut, Pots, Phases, Couples, Reserved
  <2> QED BY <2>3 DEF Promise!Next
<1>9. CASE RejectWithdrawal(u, x)
  <2>1. /\ amount' = [amount EXCEPT ![u] = @ + x] /\ onHold[u] >= x
        /\ onHold' = [onHold EXCEPT ![u] = @ - x]
        /\ UNCHANGED <<net, fees, unattached>>
    BY <1>9 DEF RejectWithdrawal, RefundPrincipal, observed
  <2>2. /\ onHold'[u] = onHold[u] - x /\ onHold'[u] >= 0
        /\ amount'[u] >= 0
        /\ amount[u] - (onHold'[u] - onHold[u]) = amount[u] + x
    BY <2>1, <1>2, <1>3
  <2>3. Promise!Reserve(u)
    BY <2>1, <2>2, <1>4
       DEF Promise!Reserve, Pots, Phases, Couples, Reserved
  <2> QED BY <2>3 DEF Promise!Next
<1> QED BY <1>1, <1>5, <1>6, <1>7, <1>8, <1>9

(* A deal whose pot the buyer fills, with what it has and what it pays in  *)
(* now, less the commission kept.                                          *)
LEMMA FundStep ==
  ASSUME Disciplined, Disciplined', NEW d \in Deal,
         NEW b \in User, NEW a \in Nat, NEW p \in Nat, NEW c \in Nat,
         status'[d] \in Active, terms'[d].buyer = b, terms'[d].amount = a, a > 0,
         \/ /\ status[d] = "pending_topup" /\ UNCHANGED terms
         \/ /\ status[d] = "none"
            /\ \E s \in User : /\ b # s
                               /\ \E r : terms' = [terms EXCEPT ![d] = r]
                               /\ terms'[d].seller = s,
         \A e \in Deal \ {d} : status'[e] = status[e],
         UNCHANGED onHold,
         net' = net + p,
         fees' + unattached' = (fees + unattached) + c,
         amount[b] + (p - c) >= a,
         amount' = [amount EXCEPT ![b] = (@ + (p - c)) - a]
  PROVE  Promise!Fund(d)
<1> USE DEF Disciplined, Rows
<1>1. net \in Int /\ fees \in Nat /\ unattached \in Nat /\ amount \in [User -> Nat]
  BY DEF TypeOK
<1>2. /\ PhaseOf(d)' = "funded" /\ Held(d)' = a
      /\ \A e \in Deal \ {d} : terms'[e] = terms[e]
      /\ \A e \in Deal \ {d} : PhaseOf(e)' = PhaseOf(e) /\ Held(e)' = Held(e)
  <2>1. \A e \in Deal \ {d} : terms'[e] = terms[e]
    BY DEF TypeOK
  <2> QED BY <2>1 DEF PhaseOf, Held, Active
<1>3. /\ Phases' = [Phases EXCEPT ![d] = "funded"]
      /\ Pots' = [Pots EXCEPT ![d] = a] /\ Pots'[d] = a
  BY <1>2 DEF Phases, Pots
<1>4. Couples'[d].buyer = b
  BY DEF Couples
<1>5. ASSUME status[d] = "pending_topup", UNCHANGED terms
      PROVE  Phases[d] = "open" /\ Couples' = Couples
  <2>1. PhaseOf(d) = "open"
    BY <1>5, PhaseFacts
  <2> QED BY <1>5, <2>1 DEF Phases, Couples
<1>6. ASSUME status[d] = "none", NEW s \in User, b # s, terms'[d].seller = s
      PROVE  /\ Phases[d] = "none"
             /\ Couples' = [Couples EXCEPT ![d] = [buyer |-> b, seller |-> s]]
  <2>1. PhaseOf(d) = "none"
    BY <1>6, PhaseFacts
  <2>2. \A e \in Deal : Couples'[e] = IF e = d THEN [buyer |-> b, seller |-> s]
                                      ELSE Couples[e]
    BY <1>2, <1>6 DEF Couples
  <2>3. Couples' = [e \in Deal |-> Couples'[e]]
    BY DEF Couples
  <2>4. Couples' = [Couples EXCEPT ![d] = [buyer |-> b, seller |-> s]]
    BY <2>2, <2>3 DEF Couples
  <2> QED BY <2>1, <2>4 DEF Phases
<1>7. Reserved' = Reserved
  BY ReservedMoves
<1>8. /\ net' >= net /\ fees' + unattached' >= fees + unattached
      /\ (net' - net) - ((fees' + unattached') - (fees + unattached)) = p - c
      /\ amount[b] \in Nat
      /\ (amount[b] + (p - c)) - a >= 0
      /\ amount'[b] = (amount[b] + (p - c)) - a
  BY <1>1
<1>9. Promise!Income = p - c
  BY <1>8 DEF Promise!Income
<1>10. \/ /\ Phases[d] = "none"
          /\ \E v, w \in User :
               v # w /\ Couples' = [Couples EXCEPT ![d] = [buyer |-> v, seller |-> w]]
       \/ Phases[d] = "open" /\ Couples' = Couples
  BY <1>5, <1>6
<1>11. /\ net' >= net /\ (fees + unattached)' >= fees + unattached
       /\ Pots'[d] > 0 /\ Pots' = [Pots EXCEPT ![d] = Pots'[d]]
  BY <1>3, <1>8
<1>12. LET v == Couples'[d].buyer
       IN  /\ amount' = [amount EXCEPT ![v] = @ + Promise!Income - Pots'[d]]
           /\ amount'[v] >= 0
  <2>1. amount[b] + Promise!Income - Pots'[d] = (amount[b] + (p - c)) - a
    BY <1>3, <1>8, <1>9
  <2>2. amount' = [amount EXCEPT ![b] = amount[b] + Promise!Income - Pots'[d]]
    BY <2>1
  <2>3. amount'[b] >= 0
    BY <1>8
  <2> QED BY <1>4, <2>2, <2>3
<1> QED BY <1>3, <1>7, <1>10, <1>11, <1>12
        DEF Promise!Fund, Promise!Agree, Phases, Pots, Couples, Reserved

(* A deal is created funded, or open.                                      *)
LEMMA CreationPromised ==
  ASSUME Disciplined, Disciplined', Creation PROVE Promise!Next
<1> USE DEF Disciplined, Rows
<1>1. PICK d \in Deal, b \in User, s \in User, a \in Amounts, rate \in Rates :
        \/ CreateFunded(d, b, s, a, rate)
        \/ \E i \in Invoice : CreatePendingTopup(d, b, s, a, rate, i)
  BY DEF Creation
<1> DEFINE c == PercentOf(a, rate)
<1>2. a \in Nat /\ a > 0 /\ c \in Nat
  <2>1. a \in Nat /\ a > 0 /\ rate \in 0..100
    BY EscrowAssumption
  <2>2. c \in 0..a
    BY <2>1, PercentOfBounds
  <2> HIDE DEF c
  <2> QED BY <2>1, <2>2
<1>3. status[d] = "none" /\ b # s
  BY <1>1 DEF CreateFunded, CreatePendingTopup, IsNextDeal
<1>4. ASSUME NEW st, status' = [status EXCEPT ![d] = st],
             terms' = [terms EXCEPT ![d] = [buyer |-> b, seller |-> s,
                                            amount |-> a, commission |-> c]]
      PROVE  /\ terms'[d] = [buyer |-> b, seller |-> s, amount |-> a,
                             commission |-> c]
             /\ \A e \in Deal \ {d} : terms'[e] = terms[e]
             /\ \A e \in Deal : status'[e] = IF e = d THEN st ELSE status[e]
  BY <1>4 DEF TypeOK
<1>5. CASE CreateFunded(d, b, s, a, rate)
  <2>1. /\ status' = [status EXCEPT ![d] = "pending_confirmation"]
        /\ terms' = [terms EXCEPT ![d] = [buyer |-> b, seller |-> s,
                                          amount |-> a, commission |-> c]]
        /\ amount[b] >= a + c
        /\ amount' = [amount EXCEPT ![b] = @ - (a + c)]
        /\ fees' = fees + c
        /\ UNCHANGED <<onHold, net, unattached>>
    BY <1>5 DEF CreateFunded, InsertDeal
  <2> HIDE DEF c
  <2>2. /\ status'[d] \in Active
        /\ terms'[d].buyer = b /\ terms'[d].amount = a /\ terms'[d].seller = s
        /\ \E r : terms' = [terms EXCEPT ![d] = r]
        /\ \A e \in Deal \ {d} : status'[e] = status[e]
    <3>1. /\ terms'[d] = [buyer |-> b, seller |-> s, amount |-> a,
                          commission |-> c]
          /\ \A e \in Deal : status'[e] = IF e = d THEN "pending_confirmation"
                                          ELSE status[e]
      BY <2>1, <1>4
    <3>2. \E r : terms' = [terms EXCEPT ![d] = r]
      BY <2>1
    <3>3. terms'[d].buyer = b /\ terms'[d].amount = a /\ terms'[d].seller = s
      BY <3>1
    <3>4. status'[d] \in Active /\ \A e \in Deal \ {d} : status'[e] = status[e]
      BY <3>1 DEF Active
    <3> QED BY <3>2, <3>3, <3>4
  <2>3. /\ 0 \in Nat /\ net' = net + 0
        /\ fees' + unattached' = (fees + unattached) + c
        /\ amount[b] + (0 - c) >= a
        /\ amount' = [amount EXCEPT ![b] = (@ + (0 - c)) - a]
    <3>1. /\ net \in Int /\ fees \in Nat /\ unattached \in Nat
          /\ amount[b] \in Nat
      BY DEF TypeOK
    <3>2. (amount[b] + (0 - c)) - a = amount[b] - (a + c)
      BY <3>1, <1>2
    <3>3. /\ net + 0 = net
          /\ (fees + c) + unattached = (fees + unattached) + c
          /\ amount[b] + (0 - c) >= a
      BY <3>1, <2>1, <1>2
    <3> QED BY <3>2, <3>3, <2>1
  <2>4. Promise!Fund(d)
    BY <1>2, <1>3, <2>1, <2>2, <2>3, FundStep
  <2> QED BY <2>4 DEF Promise!Next
<1>6. ASSUME NEW i \in Invoice, CreatePendingTopup(d, b, s, a, rate, i)
      PROVE  Promise!Next
  <2>1. /\ status' = [status EXCEPT ![d] = "pending_topup"]
        /\ terms' = [terms EXCEPT ![d] = [buyer |-> b, seller |-> s,
                                          amount |-> a, commission |-> c]]
        /\ UNCHANGED <<amount, onHold, net, fees, unattached>>
    BY <1>6 DEF CreatePendingTopup, InsertDeal, balanceVars, observed
  <2> HIDE DEF c
  <2>2. /\ Phases[d] = "none" /\ Phases' = [Phases EXCEPT ![d] = "open"]
        /\ Pots' = Pots
        /\ Couples' = [Couples EXCEPT ![d] = [buyer |-> b, seller |-> s]]
    <3>1. /\ PhaseOf(d) = "none" /\ PhaseOf(d)' = "open"
          /\ Held(d) = 0 /\ Held(d)' = 0
      BY <2>1, <1>3, <1>4 DEF PhaseOf, Held, Active
    <3>2. \A e \in Deal \ {d} : /\ PhaseOf(e)' = PhaseOf(e)
                                /\ Held(e)' = Held(e) /\ terms'[e] = terms[e]
      BY <2>1, <1>4 DEF PhaseOf, Held, Active
    <3>8. terms'[d] = [buyer |-> b, seller |-> s, amount |-> a, commission |-> c]
      BY <2>1, <1>4
    <3>3. terms'[d].buyer = b /\ terms'[d].seller = s
      BY <3>8
    <3>4. /\ Phases[d] = "none" /\ Phases' = [Phases EXCEPT ![d] = "open"]
          /\ Pots' = Pots
      BY <3>1, <3>2 DEF Phases, Pots
    <3>5. \A e \in Deal : Couples'[e] = IF e = d THEN [buyer |-> b, seller |-> s]
                                        ELSE Couples[e]
      BY <3>2, <3>3 DEF Couples
    <3>6. Couples' = [e \in Deal |-> Couples'[e]]
      BY DEF Couples
    <3>7. Couples' = [Couples EXCEPT ![d] = [buyer |-> b, seller |-> s]]
      BY <3>5, <3>6 DEF Couples
    <3> QED BY <3>4, <3>7
  <2>3. Reserved' = Reserved
    BY <2>1, ReservedMoves
  <2>4. Promise!Open(d)
    BY <2>1, <2>2, <2>3, <1>3
       DEF Promise!Open, Promise!Agree, Phases, Pots, Couples, Reserved
  <2> QED BY <2>4 DEF Promise!Next
<1> QED BY <1>1, <1>5, <1>6

(* A payment: credited to the buyer, kept by the platform when nobody is   *)
(* left to credit it to, or the last that the pot was waiting for.         *)
LEMMA PaymentPromised ==
  ASSUME Disciplined, Disciplined', TopupPayment PROVE Promise!Next
<1> USE DEF Disciplined, Rows, dealVars, balanceVars
<1>1. PICK i \in Invoice, p \in Payments :
        \/ TopupUnlinked(i, p)
        \/ TopupLate(i, p)
        \/ \E d \in Deal :
             \/ TopupActivates(i, p, d)
             \/ \E j \in Invoice : TopupBelowCommission(i, p, d, j)
             \/ \E j \in Invoice : TopupShort(i, p, d, j)
  BY DEF TopupPayment
<1>2. /\ p \in Nat /\ p > 0
      /\ amount \in [User -> Nat] /\ fees \in Nat /\ unattached \in Nat
  BY EscrowAssumption DEF TypeOK
<1>3. ASSUME NEW u \in User, NEW c \in 0..p, net' = net + p,
             fees' + unattached' = (fees + unattached) + c,
             amount' = [amount EXCEPT ![u] = @ + (p - c)],
             UNCHANGED <<status, terms, onHold>>
      PROVE  Promise!Next
  <2>1. Promise!PayIn(u)
    BY <1>2, <1>3, PayInStep
  <2> QED BY <2>1 DEF Promise!Next
<1>4. CASE TopupUnlinked(i, p)
  <2>1. /\ net' = net + p /\ unattached' = unattached + p
        /\ UNCHANGED <<status, terms, onHold, fees, amount>>
        /\ invoice[i].status # "none"
    BY <1>4 DEF TopupUnlinked, Payable
  <2>2. PICK u \in User : TRUE
    BY <2>1 DEF Issued
  <2>3. /\ fees' + unattached' = (fees + unattached) + p
        /\ amount[u] + (p - p) = amount[u] /\ p \in 0..p
    BY <1>2, <2>1
  <2>4. amount' = [amount EXCEPT ![u] = @ + (p - p)]
    BY <1>2, <2>1, <2>3
  <2> QED BY <2>1, <2>3, <2>4, <1>3
<1>5. CASE TopupLate(i, p)
  <2> DEFINE d == invoice[i].deal
             b == terms[d].buyer
  <2>1. /\ net' = net + p
        /\ amount' = [amount EXCEPT ![b] = @ + p]
        /\ UNCHANGED <<status, terms, onHold, fees, unattached>>
        /\ d # None
    BY <1>5 DEF TopupLate
  <2>2. b \in User
    <3>1. d \in Deal
      BY <2>1, EscrowAssumption DEF TypeOK, InvoiceRow, Deal, None
    <3>2. status[d] # "none"
      BY <2>1 DEF InvoicedDeals
    <3> QED BY <3>1, <3>2 DEF RowsOK
  <2> HIDE DEF d, b
  <2>3. /\ fees' + unattached' = (fees + unattached) + 0
        /\ p - 0 = p /\ 0 \in 0..p
    BY <1>2, <2>1
  <2>4. amount' = [amount EXCEPT ![b] = @ + (p - 0)]
    BY <2>1, <2>3
  <2> QED BY <2>1, <2>2, <2>3, <2>4, <1>3
<1>6. ASSUME NEW d \in Deal, PaidFor(i, d)
      PROVE  /\ status[d] = "pending_topup"
             /\ terms[d].buyer \in User /\ amount[terms[d].buyer] \in Nat
             /\ terms[d].amount \in Nat /\ terms[d].amount > 0
             /\ CommissionDue(d) \in Nat
  BY <1>6, TermType DEF PaidFor, RowsOK, TypeOK, Priced
<1>7. ASSUME NEW d \in Deal, NEW j \in Invoice, TopupBelowCommission(i, p, d, j)
      PROVE  Promise!Next
  <2> DEFINE b == terms[d].buyer
  <2>1. /\ net' = net + p
        /\ amount' = [amount EXCEPT ![b] = @ + p]
        /\ UNCHANGED <<status, terms, onHold, fees, unattached>>
        /\ b \in User
    BY <1>6, <1>7 DEF TopupBelowCommission
  <2> HIDE DEF b
  <2>2. /\ fees' + unattached' = (fees + unattached) + 0
        /\ p - 0 = p /\ 0 \in 0..p
    BY <1>2, <2>1
  <2>3. amount' = [amount EXCEPT ![b] = @ + (p - 0)]
    BY <2>1, <2>2
  <2> QED BY <2>1, <2>2, <2>3, <1>3
<1>8. ASSUME NEW d \in Deal, NEW j \in Invoice, TopupShort(i, p, d, j)
      PROVE  Promise!Next
  <2> DEFINE b == terms[d].buyer
             due == CommissionDue(d)
  <2>1. /\ net' = net + p /\ p >= due /\ fees' = fees + due
        /\ amount' = [amount EXCEPT ![b] = amount[b] + (p - due)]
        /\ UNCHANGED <<status, terms, onHold, unattached>>
        /\ b \in User /\ due \in Nat
    BY <1>6, <1>8 DEF TopupShort
  <2> HIDE DEF b, due
  <2>2. fees' + unattached' = (fees + unattached) + due /\ due \in 0..p
    BY <1>2, <2>1
  <2> QED BY <2>1, <2>2, <1>3
<1>9. ASSUME NEW d \in Deal, TopupActivates(i, p, d)
      PROVE  Promise!Next
  <2> DEFINE b == terms[d].buyer
             due == CommissionDue(d)
             a == terms[d].amount
  <2>1. /\ net' = net + p /\ fees' = fees + due
        /\ amount[b] + (p - due) >= a
        /\ amount' = [amount EXCEPT ![b] = (amount[b] + (p - due)) - a]
        /\ status' = [status EXCEPT ![d] = "pending_confirmation"]
        /\ UNCHANGED <<terms, onHold, unattached>>
        /\ b \in User /\ due \in Nat /\ a \in Nat /\ a > 0
        /\ status[d] = "pending_topup"
    BY <1>6, <1>9 DEF TopupActivates, Close
  <2>2. /\ terms'[d].buyer = b /\ terms'[d].amount = a
        /\ status'[d] \in Active
        /\ \A e \in Deal \ {d} : status'[e] = status[e]
    BY <2>1 DEF TypeOK, Active
  <2> HIDE DEF b, due, a
  <2>3. fees' + unattached' = (fees + unattached) + due
    BY <1>2, <2>1
  <2>4. Promise!Fund(d)
    BY <1>2, <2>1, <2>2, <2>3, FundStep
  <2> QED BY <2>4 DEF Promise!Next
<1> QED BY <1>1, <1>4, <1>5, <1>7, <1>8, <1>9

(* The three ways the pot of a closed deal is shared.                      *)
LEMMA ClosePromised ==
  ASSUME Disciplined, Disciplined', NEW d \in Deal, NEW x,
         status[d] \in Active, x \in Terminal \cup {"deleted"},
         status' = [status EXCEPT ![d] = x],
         UNCHANGED <<terms, onHold, net, fees, unattached>>,
         \/ RefundPrincipal(terms[d].buyer, terms[d].amount)
         \/ ReleaseTo(terms[d].buyer, terms[d].seller, terms[d].amount)
         \/ \E percent \in Percents :
              amount' = [amount EXCEPT
                ![terms[d].buyer] = @ + PercentOf(terms[d].amount, percent),
                ![terms[d].seller] = @ + SellerShare(terms[d].amount, percent)]
  PROVE  Promise!Next
<1> DEFINE b == terms[d].buyer
           s == terms[d].seller
           p == terms[d].amount
<1> USE DEF Disciplined, Rows
<1>1. b \in User /\ s \in User /\ b # s /\ p \in Nat
  BY TermType DEF RowsOK, Active
<1>2. amount \in [User -> Nat]
  BY DEF TypeOK
<1>3. PICK share \in 0..p :
        amount' = [u \in User |-> IF u = b THEN amount[u] + share
                                  ELSE IF u = s THEN amount[u] + (p - share)
                                  ELSE amount[u]]
  <2>1. CASE RefundPrincipal(b, p)
    <3>1. amount' = [amount EXCEPT ![b] = @ + p]
      BY <2>1 DEF RefundPrincipal
    <3> HIDE DEF b, s, p
    <3>2. p \in 0..p /\ \A u \in User : amount[u] + (p - p) = amount[u]
      BY <1>1, <1>2
    <3>4. \A u \in User : amount'[u] = IF u = b THEN amount[u] + p
                                       ELSE IF u = s THEN amount[u] + (p - p)
                                       ELSE amount[u]
      BY <1>1, <1>2, <3>1, <3>2
    <3>5. amount' = [u \in User |-> amount'[u]]
      BY <1>2, <3>1
    <3>3. amount' = [u \in User |-> IF u = b THEN amount[u] + p
                                    ELSE IF u = s THEN amount[u] + (p - p)
                                    ELSE amount[u]]
      BY <3>4, <3>5
    <3> QED BY <3>2, <3>3
  <2>2. CASE ReleaseTo(b, s, p)
    <3>1. amount' = [amount EXCEPT ![s] = @ + p]
      BY <2>2 DEF ReleaseTo
    <3> HIDE DEF b, s, p
    <3>2. 0 \in 0..p /\ p - 0 = p /\ \A u \in User : amount[u] + 0 = amount[u]
      BY <1>1, <1>2
    <3>4. \A u \in User : amount'[u] = IF u = b THEN amount[u] + 0
                                       ELSE IF u = s THEN amount[u] + (p - 0)
                                       ELSE amount[u]
      BY <1>1, <1>2, <3>1, <3>2
    <3>5. amount' = [u \in User |-> amount'[u]]
      BY <1>2, <3>1
    <3>3. amount' = [u \in User |-> IF u = b THEN amount[u] + 0
                                    ELSE IF u = s THEN amount[u] + (p - 0)
                                    ELSE amount[u]]
      BY <3>4, <3>5
    <3> QED BY <3>2, <3>3
  <2>3. ASSUME NEW percent \in Percents,
               amount' = [amount EXCEPT ![b] = @ + PercentOf(p, percent),
                                        ![s] = @ + SellerShare(p, percent)]
        PROVE  \E share \in 0..p :
                 amount' = [u \in User |-> IF u = b THEN amount[u] + share
                                           ELSE IF u = s THEN amount[u] + (p - share)
                                           ELSE amount[u]]
    <3> DEFINE share == PercentOf(p, percent)
    <3>1. share \in 0..p
      <4>1. percent \in 0..100
        BY EscrowAssumption
      <4> HIDE DEF p
      <4> QED BY <4>1, <1>1, PercentOfBounds
    <3>2. SellerShare(p, percent) = p - share
      BY DEF SellerShare
    <3> HIDE DEF b, s, p, share
    <3>3. amount' = [amount EXCEPT ![b] = @ + share, ![s] = @ + (p - share)]
      BY <2>3, <3>2 DEF share
    <3>4. amount' = [u \in User |-> IF u = b THEN amount[u] + share
                                    ELSE IF u = s THEN amount[u] + (p - share)
                                    ELSE amount[u]]
      BY <1>1, <1>2, <3>3
    <3> QED BY <3>1, <3>4
  <2> QED BY <2>1, <2>2, <2>3
<1>4. Promise!Settle(d)
  BY <1>3, SettleStep
<1> QED BY <1>4 DEF Promise!Next

(* A step between two statuses of one phase.                               *)
LEMMA WithinPhase ==
  ASSUME Disciplined, Disciplined', NEW d \in Deal, NEW x,
         \/ status[d] \in Active /\ x \in Active
         \/ status[d] \in Terminal /\ x = "deleted",
         status' = [status EXCEPT ![d] = x],
         UNCHANGED <<terms, amount, onHold, net, fees, unattached>>
  PROVE  UNCHANGED Promise!vars
<1> USE DEF Disciplined, Rows
<1>1. \A e \in Deal : status'[e] = IF e = d THEN x ELSE status[e]
  BY DEF TypeOK
<1>2. PhaseOf(d)' = PhaseOf(d) /\ Held(d)' = Held(d)
  BY <1>1 DEF PhaseOf, Held, Active, Terminal
<1>3. \A e \in Deal \ {d} : PhaseOf(e)' = PhaseOf(e) /\ Held(e)' = Held(e)
  BY <1>1 DEF PhaseOf, Held
<1> QED BY <1>2, <1>3, StutterStep

(* A deal that is dropped before its pot was filled.                       *)
LEMMA AbandonStep ==
  ASSUME Disciplined, Disciplined', NEW d \in Deal, NEW x,
         status[d] = "pending_topup", x \in Terminal \cup {"deleted"},
         status' = [status EXCEPT ![d] = x],
         UNCHANGED <<terms, amount, onHold, net, fees, unattached>>
  PROVE  Promise!Next
<1> USE DEF Disciplined, Rows
<1>1. \A e \in Deal : status'[e] = IF e = d THEN x ELSE status[e]
  BY DEF TypeOK
<1>2. /\ PhaseOf(d) = "open" /\ PhaseOf(d)' = "closed"
      /\ Held(d) = 0 /\ Held(d)' = 0
  BY <1>1 DEF PhaseOf, Held, Active, Terminal
<1>3. \A e \in Deal \ {d} : PhaseOf(e)' = PhaseOf(e) /\ Held(e)' = Held(e)
  BY <1>1 DEF PhaseOf, Held
<1>4. /\ Phases[d] = "open" /\ Phases' = [Phases EXCEPT ![d] = "closed"]
      /\ Pots' = Pots /\ Couples' = Couples
  BY <1>2, <1>3 DEF Phases, Pots, Couples
<1>5. Reserved' = Reserved
  BY ReservedMoves
<1>6. Promise!Abandon(d)
  BY <1>4, <1>5 DEF Promise!Abandon, Phases, Pots, Couples, Reserved
<1> QED BY <1>6 DEF Promise!Next

(* What the participants do.                                               *)
LEMMA ParticipantPromised ==
  ASSUME Disciplined, Disciplined', Participant
  PROVE  Promise!Next \/ UNCHANGED Promise!vars
<1> USE DEF Close, balanceVars, observed
<1>1. PICK d \in Deal, u \in User :
        \/ CancelPendingTopup(d, u)
        \/ AcceptDeal(d, u)
        \/ DeclineDeal(d, u)
        \/ FinishDeal(d, u)
        \/ RequestCancel(d, u)
        \/ RevokeCancel(d, u)
        \/ AcceptCancel(d, u)
        \/ StartArbitration(d, u)
  BY DEF Participant
<1>2. CASE CancelPendingTopup(d, u)
  <2>1. "cancelled" \in Terminal
    BY DEF Terminal
  <2> QED BY <2>1, <1>2, AbandonStep DEF CancelPendingTopup
<1>3. CASE \/ AcceptDeal(d, u) \/ RequestCancel(d, u)
           \/ RevokeCancel(d, u) \/ StartArbitration(d, u)
  <2>1. PICK x \in Active : /\ status' = [status EXCEPT ![d] = x]
                            /\ status[d] \in Active
    BY <1>3 DEF AcceptDeal, RequestCancel, RevokeCancel, StartArbitration,
                ArbitrationEligible, Active
  <2>2. UNCHANGED <<terms, amount, onHold, net, fees, unattached>>
    BY <1>3 DEF AcceptDeal, RequestCancel, RevokeCancel, StartArbitration
  <2> QED BY <2>1, <2>2, WithinPhase
<1>4. CASE DeclineDeal(d, u) \/ FinishDeal(d, u) \/ AcceptCancel(d, u)
  <2>1. PICK x \in {"cancelled", "completed"} :
          /\ status' = [status EXCEPT ![d] = x]
          /\ status[d] \in {"pending_confirmation", "in_progress",
                            "pending_cancellation"}
          /\ UNCHANGED <<terms, onHold, net, fees, unattached>>
          /\ \/ RefundPrincipal(terms[d].buyer, terms[d].amount)
             \/ ReleaseTo(terms[d].buyer, terms[d].seller, terms[d].amount)
    BY <1>4 DEF DeclineDeal, FinishDeal, AcceptCancel
  <2>2. status[d] \in Active /\ x \in Terminal
    BY <2>1 DEF Active, Terminal
  <2> QED BY <2>1, <2>2, ClosePromised
<1> QED BY <1>1, <1>2, <1>3, <1>4

(* What an admin does, other than forcing an unpaid deal.                  *)
LEMMA AdminPromised ==
  ASSUME Disciplined, Disciplined', Admin
  PROVE  Promise!Next \/ UNCHANGED Promise!vars
<1> USE DEF Close, balanceVars, observed
<1>1. PICK d \in Deal :
        \/ ResolveForBuyer(d)
        \/ ResolveForSeller(d)
        \/ ForceRelease(d)
        \/ ForceRefund(d)
        \/ ForceArbitration(d)
        \/ DeleteDeal(d)
        \/ \E percent \in Percents : SplitDeal(d, percent)
  BY DEF Admin
<1>2. status \in [Deal -> Status] /\ forced \in [Deal -> {"no", "funded", "unfunded"}]
  BY DEF Disciplined, Rows, TypeOK
<1>3. CASE ForceArbitration(d)
  <2>1. status[d] # "pending_topup"
    BY <1>2, <1>3 DEF ForceArbitration, Disciplined, FundedOnly
  <2>2. /\ status[d] \in Active /\ "arbitration" \in Active
        /\ status' = [status EXCEPT ![d] = "arbitration"]
        /\ UNCHANGED <<terms, amount, onHold, net, fees, unattached>>
    BY <2>1, <1>3 DEF ForceArbitration, Active
  <2> QED BY <2>2, WithinPhase
<1>4. CASE DeleteDeal(d) /\ ~HoldsMoney(d)
  <2>1. /\ status' = [status EXCEPT ![d] = "deleted"]
        /\ UNCHANGED <<terms, amount, onHold, net, fees, unattached>>
        /\ status[d] \notin {"none", "deleted"} /\ status[d] \notin Active
    BY <1>4 DEF DeleteDeal, HoldsMoney
  <2>2. status[d] = "pending_topup" \/ status[d] \in Terminal
    BY <1>2, <2>1 DEF Status
  <2> QED BY <2>1, <2>2, AbandonStep, WithinPhase
<1>5. CASE ~ForceArbitration(d) /\ ~(DeleteDeal(d) /\ ~HoldsMoney(d))
  <2>1. PICK x \in {"resolved_for_buyer", "resolved_for_seller", "deleted"} :
          /\ status' = [status EXCEPT ![d] = x]
          /\ status[d] = "arbitration" \/ HoldsMoney(d)
          /\ UNCHANGED <<terms, onHold, net, fees, unattached>>
    BY <1>1, <1>5 DEF ResolveForBuyer, ResolveForSeller, ForceRelease,
         ForceRefund, DeleteDeal, SplitDeal
  <2>2. \/ RefundPrincipal(terms[d].buyer, terms[d].amount)
        \/ ReleaseTo(terms[d].buyer, terms[d].seller, terms[d].amount)
        \/ \E percent \in Percents :
             amount' = [amount EXCEPT
               ![terms[d].buyer] = @ + PercentOf(terms[d].amount, percent),
               ![terms[d].seller] = @ + SellerShare(terms[d].amount, percent)]
    BY <1>1, <1>5 DEF ResolveForBuyer, ResolveForSeller, ForceRelease,
         ForceRefund, DeleteDeal, SplitDeal
  <2>3. status[d] \in Active /\ x \in Terminal \cup {"deleted"}
    BY <2>1 DEF Active, HoldsMoney, Terminal
  <2> QED BY <2>1, <2>2, <2>3, ClosePromised
<1> QED BY <1>3, <1>4, <1>5

(* What the sweeps do.                                                     *)
LEMMA SweepPromised ==
  ASSUME Disciplined, Disciplined', Sweep
  PROVE  Promise!Next \/ UNCHANGED Promise!vars
<1> USE DEF Close, dealVars, balanceVars, observed
<1>1. ASSUME NEW d \in Deal, SweepPendingTopup(d)
      PROVE  Promise!Next
  <2>1. "cancelled_for_inactivity" \in Terminal
    BY DEF Terminal
  <2> QED BY <2>1, <1>1, AbandonStep DEF SweepPendingTopup
<1>2. ASSUME NEW d \in Deal, SweepInactivity(d)
      PROVE  Promise!Next
  <2>1. PICK x \in {"cancelled_for_inactivity", "cancelled"} :
          /\ status' = [status EXCEPT ![d] = x]
          /\ status[d] \in SweptStatuses
          /\ RefundPrincipal(terms[d].buyer, terms[d].amount)
          /\ UNCHANGED <<terms, onHold, net, fees, unattached>>
    BY <1>2 DEF SweepInactivity
  <2>2. status[d] \in Active /\ x \in Terminal
    BY <2>1 DEF Active, Terminal, SweptStatuses
  <2> QED BY <2>1, <2>2, ClosePromised
<1>3. ASSUME NEW i \in Invoice, SweepExpiredDeposit(i)
      PROVE  UNCHANGED Promise!vars
  BY <1>3, StutterStep DEF SweepExpiredDeposit, PhaseOf, Held
<1> QED BY <1>1, <1>2, <1>3 DEF Sweep

(* A step keeps the price of a deal.                                       *)
LEMMA PricedStep ==
  ASSUME Rows, [Next]_vars, Priced PROVE Priced'
<1> USE DEF Rows, dealVars, Close
<1>1. ASSUME UNCHANGED terms, UNCHANGED status
      PROVE  Priced'
  BY <1>1 DEF Priced
<1>2. ASSUME UNCHANGED terms, NEW d \in Deal, NEW x, status[d] # "none",
             status' = [status EXCEPT ![d] = x]
      PROVE  Priced'
  BY <1>2 DEF Priced, TypeOK
<1>3. CASE UNCHANGED vars
  BY <1>1, <1>3 DEF vars
<1>4. CASE Border
  <2>1. UNCHANGED <<status, terms>>
    BY <1>4 DEF Border, WalletCredit, AdjustDown, HoldWithdrawal,
         SendWithdrawal, RejectWithdrawal
  <2> QED BY <1>1, <2>1
<1>5. CASE Creation
  <2>1. PICK d \in Deal, b \in User, s \in User, a \in Amounts, rate \in Rates :
          \/ CreateFunded(d, b, s, a, rate)
          \/ \E i \in Invoice : CreatePendingTopup(d, b, s, a, rate, i)
    BY <1>5 DEF Creation
  <2>2. PICK st : InsertDeal(d, b, s, a, PercentOf(a, rate), st,
                             commission_paid'[d], topup'[d])
    BY <2>1 DEF CreateFunded, CreatePendingTopup, InsertDeal, TypeOK
  <2>3. /\ terms'[d] = [buyer |-> b, seller |-> s, amount |-> a,
                        commission |-> PercentOf(a, rate)]
        /\ \A e \in Deal \ {d} : terms'[e] = terms[e] /\ status'[e] = status[e]
    BY <2>2 DEF InsertDeal, TypeOK
  <2>4. terms'[d].amount > 0
    BY <2>3, EscrowAssumption
  <2> QED BY <2>3, <2>4 DEF Priced
<1>6. CASE TopupPayment
  <2>1. \/ UNCHANGED <<status, terms>>
        \/ \E i \in Invoice, p \in Payments, d \in Deal : TopupActivates(i, p, d)
    BY <1>6 DEF TopupPayment, TopupUnlinked, TopupLate, TopupBelowCommission,
         TopupShort
  <2>2. ASSUME NEW i \in Invoice, NEW p \in Payments, NEW d \in Deal,
               TopupActivates(i, p, d)
        PROVE  /\ status' = [status EXCEPT ![d] = "pending_confirmation"]
               /\ status[d] = "pending_topup" /\ UNCHANGED terms
    BY <2>2 DEF TopupActivates, PaidFor
  <2> QED BY <1>1, <1>2, <2>1, <2>2
<1>7. CASE Participant
  <2>1. PICK d \in Deal, x \in Status :
          /\ status' = [status EXCEPT ![d] = x]
          /\ status[d] # "none" /\ UNCHANGED terms
    BY <1>7, StatusConstants DEF Participant, CancelPendingTopup, AcceptDeal, DeclineDeal,
         FinishDeal, RequestCancel, RevokeCancel, AcceptCancel,
         StartArbitration, ArbitrationEligible
  <2> QED BY <1>2, <2>1
<1>8. CASE Admin
  <2>1. PICK d \in Deal, x \in Status :
          /\ status' = [status EXCEPT ![d] = x]
          /\ status[d] # "none" /\ UNCHANGED terms
    BY <1>8, StatusConstants DEF Admin, ResolveForBuyer, ResolveForSeller, ForceRelease,
         ForceRefund, ForceArbitration, DeleteDeal, SplitDeal, HoldsMoney, Active
  <2> QED BY <1>2, <2>1
<1>9. CASE Sweep
  <2>1. \/ UNCHANGED <<status, terms>>
        \/ \E d \in Deal, x \in Status :
             /\ status' = [status EXCEPT ![d] = x]
             /\ status[d] # "none" /\ UNCHANGED terms
    BY <1>9, StatusConstants DEF Sweep, SweepExpiredDeposit, SweepPendingTopup, SweepInactivity,
         SweptStatuses
  <2> QED BY <1>1, <1>2, <2>1
<1> QED BY <1>3, <1>4, <1>5, <1>6, <1>7, <1>8, <1>9 DEF Next

(* Nothing happens in a system without users.                              *)
LEMMA SomebodyActs ==
  ASSUME Rows, Issued, Next PROVE User # {}
<1>1. CASE Border \/ Creation \/ Participant
  BY <1>1 DEF Border, Creation, Participant
<1>2. ASSUME NEW d \in Deal, status[d] # "none" PROVE User # {}
  BY <1>2 DEF Rows, RowsOK
<1>3. ASSUME NEW i \in Invoice, invoice[i].status # "none" PROVE User # {}
  BY <1>3 DEF Issued
<1>4. CASE TopupPayment
  <2>1. \E i \in Invoice : invoice[i].status # "none"
    BY <1>4 DEF TopupPayment, TopupUnlinked, TopupLate, TopupBelowCommission,
         TopupShort, TopupActivates, Payable
  <2> QED BY <1>3, <2>1
<1>5. CASE Admin
  <2>1. \E d \in Deal : status[d] # "none"
    BY <1>5 DEF Admin, ResolveForBuyer, ResolveForSeller, ForceRelease,
         ForceRefund, ForceArbitration, DeleteDeal, SplitDeal, HoldsMoney, Active
  <2> QED BY <1>2, <2>1
<1>6. CASE Sweep
  <2>1. \/ \E d \in Deal : status[d] # "none"
        \/ \E i \in Invoice : invoice[i].status # "none"
    BY <1>6 DEF Sweep, SweepExpiredDeposit, SweepPendingTopup, SweepInactivity,
         SweptStatuses
  <2> QED BY <1>2, <1>3, <2>1
<1> QED BY <1>1, <1>4, <1>5, <1>6 DEF Next

(* The initial state is one of Promise.                                    *)
LEMMA InitPromised ==
  ASSUME Init PROVE Disciplined /\ Promise!Init
<1>1. Rows /\ \A d \in Deal : status[d] = "none" /\ forced[d] = "no"
  BY InitType, InitRows DEF Rows, Init
<1>2. InvoicedDeals /\ Priced /\ Issued /\ FundedOnly
  BY <1>1 DEF Init, InvoicedDeals, Priced, Issued, FundedOnly
<1>3. EscrowBacked
  BY InitBacked
<1>4. Disciplined
  BY <1>1, <1>2, <1>3 DEF Disciplined
<1>5. Reserved = [u \in User |-> 0]
  BY <1>4, ReservedIsOnHold DEF Init
<1>6. Pots = [d \in Deal |-> 0] /\ Phases = [d \in Deal |-> "none"]
  BY <1>1 DEF Pots, Phases, Held, PhaseOf, Active
<1>7. Couples = [d \in Deal |-> [buyer |-> 0, seller |-> 0]]
  <2>1. \A d \in Deal : terms[d].buyer = 0 /\ terms[d].seller = 0
    BY DEF Init, None
  <2> QED BY <2>1 DEF Couples
<1>8. /\ amount = [u \in User |-> 0] /\ net = 0
      /\ fees + unattached = 0
  BY DEF Init
<1>9. Promise!Init
  BY <1>5, <1>6, <1>7, <1>8 DEF Promise!Init, Reserved, Pots, Phases, Couples
<1> QED BY <1>4, <1>9

(* Every step of every handler is a step of EscrowPromise or leaves what   *)
(* it speaks of as it was, for every number of users, deals and invoices,  *)
(* while no deal that waits for its invoice is forced into arbitration: a  *)
(* pot is filled once by its own buyer and emptied once to its own         *)
(* parties, whoever closes the deal.                                       *)
THEOREM EscrowKeepsPromise == DisciplinedSpec => KeepsPromise
<1>1. DisciplinedSpec => Spec
  <2>1. [DisciplinedNext]_vars => [Next]_vars
    BY DEF DisciplinedNext
  <2> QED BY <2>1, PTL DEF DisciplinedSpec, Spec
<1>2. Init => Disciplined /\ Promise!Init
  BY InitPromised
<1>3. ASSUME Rows', EscrowBacked', Disciplined, [DisciplinedNext]_vars
      PROVE  Disciplined'
  <2>1. [Next]_vars
    BY <1>3 DEF DisciplinedNext
  <2>2. InvoicedDeals' /\ Priced'
    BY <1>3, <2>1, InvoicedStep, PricedStep DEF Disciplined
  <2>3. Issued'
    <3>1. CASE Next
      BY <1>3, <3>1, SomebodyActs DEF Disciplined, Issued
    <3>2. CASE UNCHANGED vars
      BY <1>3, <3>2 DEF Disciplined, Issued, vars
    <3> QED BY <2>1, <3>1, <3>2
  <2>4. FundedOnly'
    BY <1>3 DEF DisciplinedNext, Disciplined, FundedOnly, vars, observed
  <2> QED BY <1>3, <2>2, <2>3, <2>4 DEF Disciplined
<1>4. ASSUME Disciplined, Disciplined', [DisciplinedNext]_vars
      PROVE  [Promise!Next]_(Promise!vars)
  <2>1. CASE UNCHANGED vars
    <3>1. UNCHANGED <<status, terms, amount, onHold, net, fees, unattached>>
      BY <2>1 DEF vars, dealVars, balanceVars, observed
    <3>2. \A d \in Deal : PhaseOf(d)' = PhaseOf(d) /\ Held(d)' = Held(d)
      BY <3>1 DEF PhaseOf, Held
    <3> QED BY <1>4, <3>1, <3>2, StutterStep
  <2>2. CASE Next
    BY <1>4, <2>2, BorderPromised, CreationPromised, PaymentPromised,
       ParticipantPromised, AdminPromised, SweepPromised DEF Next
  <2> QED BY <1>4, <2>1, <2>2 DEF DisciplinedNext
<1> QED BY <1>1, <1>2, <1>3, <1>4, RowsCorrect, EscrowIsBacked, PTL
        DEF DisciplinedSpec, Promise!Spec, KeepsPromise
=============================================================================
