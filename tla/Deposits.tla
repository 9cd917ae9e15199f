------------------------------ MODULE Deposits ------------------------------
(***************************************************************************)
(* The wallet and trust deposits of one user in one currency: invoices of  *)
(* two providers, their webhooks, polling, expiry and the admin desk.      *)
(*                                                                         *)
(* A webhook request commits three times: it takes the event into the      *)
(* inbox, applies it to the deposit, and marks the event processed.  The   *)
(* provider repeats an update it has no answer for, the network may        *)
(* duplicate one, and a request may die between two commits.  A poll asks  *)
(* the provider before it locks the deposit.                               *)
(***************************************************************************)
EXTENDS Money

CONSTANTS
  NDeposits,   \* wallet_deposits.id ranges over 1..NDeposits
  Amounts,     \* amounts a user may ask to deposit, or to spend
  Sums,        \* amounts a provider may report as paid
  Funds,       \* user_balances.amount at the start
  Tolerance,   \* _AMOUNT_MISMATCH_TOLERANCE in quanta of the currency
  Requests,    \* the webhook and poll requests that may run at the same time
  MaxFaults    \* bound: webhook requests that raise or die

Deposit == 1..NDeposits

ASSUME DepositsAssumption ==
  /\ NDeposits \in Nat
  /\ Amounts \subseteq Nat \ {0} /\ Sums \subseteq Nat \ {0}
  /\ Funds \in Nat /\ Tolerance \in Nat /\ MaxFaults \in Nat

(* What a provider says of an invoice.  sum is the amount it reports, zero *)
(* where the code reads none: in an expiry and in the answer to a poll.    *)
Update == [deposit : Deposit, state : {"paid", "expired"}, sum : Sums \cup {0}]
None == [deposit |-> 0, state |-> "expired", sum |-> 0]

VARIABLES
  status,    \* wallet_deposits.status; "none" before the row exists
  provider, purpose, amount,  \* other columns of wallet_deposits
  balance,   \* user_balances.amount
  trust,     \* users.trust_deposit_balance
  elsewhere, \* what the user has moved on into deals and withdrawals
  inbox,     \* provider_webhook_events.status; "none" before the row exists
  request,   \* how far each request is, and with which update
  received,  \* external: the amount the provider has last reported as paid
  updates,   \* external: updates the provider has sent
  acked,     \* external: updates that got an answer of 200
  creditor,  \* observer: who credited the deposit last
  faults     \* observer: requests that have raised or died

row    == <<status, provider, purpose, amount, creditor>>
money  == <<balance, trust, elsewhere>>
intake == <<inbox, request, acked, faults>>
remote == <<received, updates>>
vars   == <<row, money, intake, remote>>

Idle == [step |-> "idle", update |-> None]

TypeOK ==
  /\ status \in [Deposit -> {"none", "pending", "paid", "expired", "refunded"}]
  /\ provider \in [Deposit -> {"cryptobot", "crystalpay"}]
  /\ purpose \in [Deposit -> {"wallet", "trust"}]
  /\ amount \in [Deposit -> Nat]
  /\ balance \in Nat /\ trust \in Nat /\ elsewhere \in Nat
  /\ inbox \in [Update -> {"none", "processing", "processed", "failed"}]
  /\ request \in [Requests -> [step : {"idle", "begun", "handled", "polling"},
                               update : Update \cup {None}]]
  /\ \A r \in Requests : request[r].step # "idle" => request[r].update \in Update
  /\ received \in [Deposit -> Nat]
  /\ updates \subseteq Update /\ acked \subseteq Update
  /\ creditor \in [Deposit -> {"none", "webhook", "poll", "admin"}]
  /\ faults \in 0..MaxFaults

Init ==
  /\ status = [d \in Deposit |-> "none"]
  /\ provider = [d \in Deposit |-> "cryptobot"]
  /\ purpose = [d \in Deposit |-> "wallet"]
  /\ amount = [d \in Deposit |-> 0]
  /\ balance = Funds /\ trust = 0 /\ elsewhere = 0
  /\ inbox = [u \in Update |-> "none"]
  /\ request = [r \in Requests |-> Idle]
  /\ received = [d \in Deposit |-> 0]
  /\ updates = {} /\ acked = {}
  /\ creditor = [d \in Deposit |-> "none"]
  /\ faults = 0

SetStatus(d, s) == status' = [status EXCEPT ![d] = s]
SetRequest(r, s, u) == request' = [request EXCEPT ![r] = [step |-> s, update |-> u]]

-----------------------------------------------------------------------------
(* The user and the provider.                                              *)

IsNext(d) == status[d] = "none" /\ \A e \in 1..(d - 1) : status[e] # "none"

(* The provider's invoice is created first: if that fails, so does this.   *)
CreateDeposit(d, p, q, a) ==
  /\ IsNext(d)
  /\ SetStatus(d, "pending")
  /\ provider' = [provider EXCEPT ![d] = p]
  /\ purpose' = [purpose EXCEPT ![d] = q]
  /\ amount' = [amount EXCEPT ![d] = a]
  /\ UNCHANGED <<creditor, money, intake, remote>>

Expiry(d) == [deposit |-> d, state |-> "expired", sum |-> 0]
Payment(d, s) == [deposit |-> d, state |-> "paid", sum |-> s]

(* _amounts_match: overpayments pass, underpayments do not.                *)
Matches(s, d) == s >= amount[d] - Tolerance

(* The payer pays an open invoice, or what is missing of a short payment;  *)
(* the provider reports the invoice paid, with the amount.                 *)
Pay(d, s) ==
  /\ status[d] # "none" /\ Expiry(d) \notin updates
  /\ ~Matches(received[d], d) /\ s > received[d]
  /\ received' = [received EXCEPT ![d] = s]
  /\ updates' = updates \cup {Payment(d, s)}
  /\ UNCHANGED <<row, money, intake>>

(* An unpaid invoice lapses at the provider.                               *)
Lapse(d) ==
  /\ status[d] # "none" /\ received[d] = 0
  /\ updates' = updates \cup {Expiry(d)}
  /\ UNCHANGED <<row, money, intake, received>>

(* The user spends from his balance, or gets back what a deal or a         *)
(* withdrawal held.                                                        *)
Spend(x) ==
  /\ x <= balance
  /\ balance' = balance - x /\ elsewhere' = elsewhere + x
  /\ UNCHANGED <<row, trust, intake, remote>>

Recover(x) ==
  /\ x <= elsewhere
  /\ balance' = balance + x /\ elsewhere' = elsewhere - x
  /\ UNCHANGED <<row, trust, intake, remote>>

-----------------------------------------------------------------------------
(* credit_deposit, under the lock of the deposit's row.                    *)

(* An overpayment is credited in full.                                     *)
Credited(d, s) == IF s > amount[d] THEN s ELSE amount[d]

Credit(d, s, who) ==
  /\ SetStatus(d, "paid")
  /\ amount' = [amount EXCEPT ![d] = Credited(d, s)]
  /\ creditor' = [creditor EXCEPT ![d] = who]
  /\ \/ /\ purpose[d] = "trust"
        /\ trust' = trust + Credited(d, s) /\ UNCHANGED balance
     \/ /\ purpose[d] = "wallet"
        /\ balance' = balance + Credited(d, s) /\ UNCHANGED trust
  /\ UNCHANGED <<provider, purpose, elsewhere>>

-----------------------------------------------------------------------------
(* Webhooks.                                                               *)

(* The event id: CryptoBot numbers its updates, for Crystalpay it is the   *)
(* invoice and its state.                                                  *)
Event(u) == IF provider[u.deposit] = "crystalpay" THEN [u EXCEPT !.sum = 0] ELSE u

(* First commit.  An event that failed is taken again, and so is one whose *)
(* processing is older than ten minutes, which stands for any time here:   *)
(* what was processing it may have died or be slow.                        *)
Accept(r, u) ==
  /\ request[r].step = "idle" /\ u \in updates
  /\ inbox[Event(u)] # "processed"
  /\ inbox' = [inbox EXCEPT ![Event(u)] = "processing"]
  /\ SetRequest(r, "begun", u)
  /\ UNCHANGED <<row, money, acked, faults, remote>>

(* An event that is processed, or taken less than ten minutes ago, is      *)
(* answered with 200.                                                      *)
AnswerDuplicate(u) ==
  /\ u \in updates
  /\ inbox[Event(u)] \in {"processing", "processed"}
  /\ acked' = acked \cup {u}
  /\ UNCHANGED <<row, money, inbox, request, faults, remote>>

(* Mutants: a payment is credited whatever its amount; the rule of         *)
(* Crystalpay is dropped, or applied to both providers.                    *)
CreditableUnchecked(u) ==
  /\ status[u.deposit] # "paid"
  /\ provider[u.deposit] = "crystalpay" => status[u.deposit] = "pending"

CreditableClosed(u) ==
  status[u.deposit] # "paid" /\ Matches(u.sum, u.deposit)

CreditablePending(u) ==
  status[u.deposit] = "pending" /\ Matches(u.sum, u.deposit)

(* handle_invoice_paid credits a deposit that expired or was refunded,     *)
(* handle_crystalpay_invoice does not.                                     *)
Creditable(u) ==
  /\ status[u.deposit] # "paid"
  /\ provider[u.deposit] = "crystalpay" => status[u.deposit] = "pending"
  /\ Matches(u.sum, u.deposit)

(* Second commit.                                                          *)
HandlePaid(r, u) ==
  /\ request[r] = [step |-> "begun", update |-> u] /\ u.state = "paid"
  /\ \/ Creditable(u) /\ Credit(u.deposit, u.sum, "webhook")
     \/ ~Creditable(u) /\ UNCHANGED <<row, money>>
  /\ SetRequest(r, "handled", u)
  /\ UNCHANGED <<inbox, acked, faults, remote>>

HandleExpired(r, u) ==
  /\ request[r] = [step |-> "begun", update |-> u] /\ u.state = "expired"
  /\ \/ status[u.deposit] = "pending" /\ SetStatus(u.deposit, "expired")
     \/ status[u.deposit] # "pending" /\ UNCHANGED status
  /\ SetRequest(r, "handled", u)
  /\ UNCHANGED <<provider, purpose, amount, creditor, money, inbox, acked, faults, remote>>

(* Third commit, and the answer.                                           *)
Finish(r, u) ==
  /\ request[r] = [step |-> "handled", update |-> u]
  /\ inbox' = [inbox EXCEPT ![Event(u)] = "processed"]
  /\ acked' = acked \cup {u}
  /\ SetRequest(r, "idle", None)
  /\ UNCHANGED <<row, money, faults, remote>>

(* The handler raises and the answer is 500.  _mark_webhook_failed rolls    *)
(* back first; if there was a transaction, that expires the event, whose   *)
(* id can then not be read: the mark is written only when the handler      *)
(* raises between its commit and its next statement.                       *)
Fail(r, u) ==
  /\ request[r].step \in {"begun", "handled"} /\ request[r].update = u
  /\ faults < MaxFaults /\ faults' = faults + 1
  /\ \/ request[r].step = "handled" /\ inbox' = [inbox EXCEPT ![Event(u)] = "failed"]
     \/ UNCHANGED inbox
  /\ SetRequest(r, "idle", None)
  /\ UNCHANGED <<row, money, acked, remote>>

(* The process dies; the event stays as it was committed.                  *)
Crash(r) ==
  /\ request[r].step \in {"begun", "handled"}
  /\ faults < MaxFaults /\ faults' = faults + 1
  /\ SetRequest(r, "idle", None)
  /\ UNCHANGED <<row, money, inbox, acked, remote>>

-----------------------------------------------------------------------------
(* poll_deposit_status.                                                    *)

(* The provider is asked about a deposit that was pending when it was read.*)
(* It says paid without the amount being looked at.                        *)
PollAsk(r, d) ==
  /\ request[r].step = "idle" /\ status[d] = "pending"
  /\ \/ received[d] > 0 /\ SetRequest(r, "polling", Payment(d, 0))
     \/ Expiry(d) \in updates /\ SetRequest(r, "polling", Expiry(d))
  /\ UNCHANGED <<row, money, inbox, acked, faults, remote>>

(* Mutant: the status is not re-read under the lock.                       *)
StillPendingUnread(d) == TRUE

StillPending(d) == status[d] = "pending"

(* _lock_and_credit_deposit, _lock_and_expire_deposit.                     *)
PollApply(r, d, s) ==
  /\ request[r].step = "polling"
  /\ request[r].update.deposit = d /\ request[r].update.state = s
  /\ \/ StillPending(d) /\ s = "paid" /\ Credit(d, 0, "poll")
     \/ /\ StillPending(d) /\ s = "expired" /\ SetStatus(d, "expired")
        /\ UNCHANGED <<provider, purpose, amount, creditor, money>>
     \/ ~StillPending(d) /\ UNCHANGED <<row, money>>
  /\ SetRequest(r, "idle", None)
  /\ UNCHANGED <<inbox, acked, faults, remote>>

-----------------------------------------------------------------------------
(* The sweep and the admin desk.                                           *)

(* sweep_expired_deposits, per row; any pending row may be old enough.     *)
SweepExpired(d) ==
  /\ status[d] = "pending"
  /\ SetStatus(d, "expired")
  /\ UNCHANGED <<provider, purpose, amount, creditor, money, intake, remote>>

(* A trust deposit is credited to the spendable balance, too.              *)
MarkPaid(d) ==
  /\ status[d] \notin {"none", "paid"}
  /\ SetStatus(d, "paid")
  /\ creditor' = [creditor EXCEPT ![d] = "admin"]
  /\ balance' = balance + amount[d]
  /\ UNCHANGED <<provider, purpose, amount, trust, elsewhere, intake, remote>>

(* Mutant: the balance is not compared with the deposit.                   *)
RefundableUnchecked(d) == status[d] = "paid"

Refundable(d) == status[d] = "paid" /\ balance >= amount[d]

(* The refund of a trust deposit is taken from the spendable balance, too. *)
RefundDeposit(d) ==
  /\ Refundable(d)
  /\ SetStatus(d, "refunded")
  /\ balance' = balance - amount[d]
  /\ UNCHANGED <<provider, purpose, amount, creditor, trust, elsewhere, intake, remote>>

-----------------------------------------------------------------------------
World ==
  \/ \E d \in Deposit : \/ \E p \in {"cryptobot", "crystalpay"}, q \in {"wallet", "trust"},
                              a \in Amounts : CreateDeposit(d, p, q, a)
                        \/ \E s \in Sums : Pay(d, s)
                        \/ Lapse(d)
  \/ \E x \in Amounts : Spend(x) \/ Recover(x)

Handle(r, u) == HandlePaid(r, u) \/ HandleExpired(r, u)

Webhook ==
  \/ \E u \in updates : AnswerDuplicate(u)
  \/ \E r \in Requests : \/ Crash(r)
                         \/ \E u \in updates : \/ Accept(r, u)
                                               \/ Handle(r, u)
                                               \/ Finish(r, u)
                                               \/ Fail(r, u)

EndPoll(r) == \E d \in Deposit, s \in {"paid", "expired"} : PollApply(r, d, s)

Poll == \E r \in Requests : EndPoll(r) \/ \E d \in Deposit : PollAsk(r, d)

Desk == \E d \in Deposit : SweepExpired(d) \/ MarkPaid(d) \/ RefundDeposit(d)

Next == World \/ Webhook \/ Poll \/ Desk

Spec == Init /\ [][Next]_vars

(* A request ends.  A provider repeats the report of a payment until it is *)
(* answered with 200, and is heard when a request is free; Requests bounds *)
(* the model, not the server.                                              *)
Fairness ==
  /\ \A r \in Requests :
       WF_vars(EndPoll(r) \/ \E u \in updates : Handle(r, u) \/ Finish(r, u))
  /\ \A d \in Deposit, s \in Sums : LET u == Payment(d, s) IN
       SF_vars(u \notin acked /\ (AnswerDuplicate(u) \/ \E r \in Requests : Accept(r, u)))

FairSpec == Spec /\ Fairness

-----------------------------------------------------------------------------
(* Properties.                                                             *)

SumPaid == Total([d \in Deposit |-> IF status[d] = "paid" THEN amount[d] ELSE 0], NDeposits)

(* What the user has, spendable, in trust or moved on, is what he had and  *)
(* what his paid deposits say: none is booked twice or taken back by a     *)
(* late expiry, however webhooks, polls, the sweep and admins interleave.  *)
Books == balance + trust + elsewhere = Funds + SumPaid

(* A webhook credits what the provider has received, up to the tolerance,  *)
(* never a short payment as if it were whole: reports of several payments  *)
(* of one invoice may arrive in any order.                                 *)
CreditedAsReceived ==
  \A d \in Deposit : status[d] = "paid" /\ creditor[d] = "webhook" =>
    received[d] <= amount[d] /\ amount[d] <= received[d] + Tolerance

(* A Crystalpay deposit that was closed is opened by admins only: not by a *)
(* payment that arrives late, and not by an update delivered again.        *)
CrystalpayStaysClosed ==
  [][\A d \in Deposit :
       /\ provider[d] = "crystalpay" /\ status[d] \in {"expired", "refunded"}
       /\ status'[d] = "paid"
       => creditor'[d] = "admin"]_vars

(* The provider considers u delivered, but its processing was cut short    *)
(* and nobody is at it: the event was answered as a duplicate while it was *)
(* marked processing.                                                      *)
Dropped(u) ==
  /\ u \in acked /\ inbox[Event(u)] \in {"processing", "failed"}
  /\ \A r \in Requests : request[r].step \in {"begun", "handled"} =>
                           Event(request[r].update) # Event(u)

(* A CryptoBot invoice paid in full is credited in the end, also when the  *)
(* webhook comes after the local expiry, and over failed attempts, unless  *)
(* its update is dropped.                                                  *)
PaymentsArrive ==
  \A d \in Deposit :
    (provider[d] = "cryptobot" /\ received[d] > 0 /\ Matches(received[d], d))
      ~> (creditor[d] # "none" \/ Dropped(Payment(d, received[d])))

(* "never double-credits on retries" (services_payments): an update that   *)
(* has credited a deposit, which was refunded since, does not credit it    *)
(* again.  After a webhook's credit no other update of the deposit matches *)
(* its amount.                                                             *)
RetriesNeverCredit ==
  [][\A d \in Deposit :
       creditor[d] = "webhook" /\ status[d] = "refunded" /\ status'[d] = "paid"
       => creditor'[d] = "admin"]_vars
=============================================================================
