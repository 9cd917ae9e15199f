--------------------------- MODULE DepositsProofs ---------------------------
(***************************************************************************)
(* Theorems about Deposits for every number of deposits, every amount and  *)
(* every set of concurrent requests.                                       *)
(***************************************************************************)
EXTENDS Deposits, MoneyTheorems

(* Parts of updates.                                                       *)
LEMMA UpdateFields ==
  ASSUME NEW u \in Update
  PROVE  /\ u.deposit \in Deposit /\ u.sum \in Nat
         /\ u.state \in {"paid", "expired"}
<1>1. u.deposit \in Deposit /\ u.sum \in Sums \cup {0} /\ u.state \in {"paid", "expired"}
  BY DEF Update
<1>2. Sums \cup {0} \subseteq Nat
  BY DepositsAssumption
<1> QED BY <1>1, <1>2

LEMMA UpdateForms ==
  ASSUME NEW d \in Deposit, NEW s \in Sums \cup {0}
  PROVE  /\ Payment(d, s) \in Update /\ Expiry(d) \in Update
         /\ Payment(d, s).deposit = d /\ Payment(d, s).sum = s
         /\ Payment(d, s).state = "paid" /\ Expiry(d).state = "expired"
BY DEF Update, Payment, Expiry

LEMMA EventType == ASSUME NEW u \in Update PROVE Event(u) \in Update
BY DEF Update, Event

-----------------------------------------------------------------------------
(* Type correctness.                                                       *)

LEMMA InitTypes == ASSUME Init PROVE TypeOK
BY DepositsAssumption DEF Init, TypeOK, Idle, None

LEMMA RequestTypes ==
  ASSUME TypeOK, NEW r \in Requests,
         NEW s \in {"idle", "begun", "handled", "polling"},
         NEW u \in Update \cup {None}, s # "idle" => u \in Update,
         SetRequest(r, s, u)
  PROVE  /\ request' \in [Requests -> [step : {"idle", "begun", "handled", "polling"},
                                       update : Update \cup {None}]]
         /\ \A q \in Requests : request'[q].step # "idle" => request'[q].update \in Update
BY DEF TypeOK, SetRequest

LEMMA CreditTypes ==
  ASSUME TypeOK, NEW d \in Deposit, NEW s \in Nat, NEW who \in {"webhook", "poll"},
         Credit(d, s, who)
  PROVE  /\ status' \in [Deposit -> {"none", "pending", "paid", "expired", "refunded"}]
         /\ amount' \in [Deposit -> Nat]
         /\ balance' \in Nat /\ trust' \in Nat /\ UNCHANGED <<provider, purpose, elsewhere>>
         /\ creditor' \in [Deposit -> {"none", "webhook", "poll", "admin"}]
<1>1. Credited(d, s) \in Nat
  BY DEF Credited, TypeOK
<1> QED BY <1>1 DEF Credit, SetStatus, TypeOK

LEMMA WorldTypes == ASSUME TypeOK, World PROVE TypeOK'
<1> USE DepositsAssumption
<1>1. ASSUME NEW d \in Deposit, NEW p \in {"cryptobot", "crystalpay"},
             NEW q \in {"wallet", "trust"}, NEW a \in Amounts, CreateDeposit(d, p, q, a)
      PROVE  TypeOK'
  BY <1>1 DEF CreateDeposit, SetStatus, TypeOK, money, intake, remote
<1>2. ASSUME NEW d \in Deposit, NEW s \in Sums, Pay(d, s) PROVE TypeOK'
  BY <1>2, UpdateForms DEF Pay, TypeOK, row, money, intake
<1>3. ASSUME NEW d \in Deposit, Lapse(d) PROVE TypeOK'
  BY <1>3, UpdateForms DEF Lapse, TypeOK, row, money, intake
<1>4. ASSUME NEW x \in Amounts, Spend(x) \/ Recover(x) PROVE TypeOK'
  BY <1>4 DEF Spend, Recover, TypeOK, row, intake, remote
<1> QED BY <1>1, <1>2, <1>3, <1>4 DEF World

LEMMA WebhookTypes == ASSUME TypeOK, Webhook PROVE TypeOK'
<1>0. updates \subseteq Update
  BY DEF TypeOK
<1>1. ASSUME NEW u \in updates, AnswerDuplicate(u) PROVE TypeOK'
  BY <1>0, <1>1 DEF AnswerDuplicate, TypeOK, row, money, remote
<1>2. ASSUME NEW r \in Requests, Crash(r) PROVE TypeOK'
  BY <1>2, RequestTypes, DepositsAssumption DEF Crash, TypeOK, row, money, remote
<1>3. ASSUME NEW r \in Requests, NEW u \in updates, Accept(r, u) PROVE TypeOK'
  BY <1>0, <1>3, RequestTypes, EventType DEF Accept, TypeOK, row, money, remote
<1>4. ASSUME NEW r \in Requests, NEW u \in updates, HandlePaid(r, u) PROVE TypeOK'
  <2>1. u \in Update /\ u.deposit \in Deposit /\ u.sum \in Nat
    BY <1>0, UpdateFields
  <2>2. SetRequest(r, "handled", u) /\ UNCHANGED <<inbox, acked, faults, remote>>
    BY <1>4 DEF HandlePaid
  <2>3. CASE Credit(u.deposit, u.sum, "webhook")
    BY <2>1, <2>2, <2>3, CreditTypes, RequestTypes DEF TypeOK, remote
  <2>4. CASE UNCHANGED <<row, money>>
    BY <2>1, <2>2, <2>4, RequestTypes DEF TypeOK, row, money, remote
  <2> QED BY <1>4, <2>3, <2>4 DEF HandlePaid
<1>5. ASSUME NEW r \in Requests, NEW u \in updates, HandleExpired(r, u) PROVE TypeOK'
  <2>1. u \in Update /\ u.deposit \in Deposit
    BY <1>0, UpdateFields
  <2> QED BY <1>5, <2>1, RequestTypes DEF HandleExpired, SetStatus, TypeOK, money, remote
<1>6. ASSUME NEW r \in Requests, NEW u \in updates, Finish(r, u) PROVE TypeOK'
  BY <1>0, <1>6, RequestTypes, EventType DEF Finish, TypeOK, row, money, remote
<1>7. ASSUME NEW r \in Requests, NEW u \in updates, Fail(r, u) PROVE TypeOK'
  BY <1>0, <1>7, RequestTypes, EventType, DepositsAssumption
  DEF Fail, TypeOK, row, money, remote
<1> QED BY <1>1, <1>2, <1>3, <1>4, <1>5, <1>6, <1>7 DEF Webhook, Handle

LEMMA PollTypes == ASSUME TypeOK, Poll PROVE TypeOK'
<1>1. ASSUME NEW r \in Requests, NEW d \in Deposit, PollAsk(r, d) PROVE TypeOK'
  BY <1>1, RequestTypes, UpdateForms DEF PollAsk, TypeOK, row, money, remote
<1>2. ASSUME NEW r \in Requests, NEW d \in Deposit, NEW s \in {"paid", "expired"},
             PollApply(r, d, s)
      PROVE  TypeOK'
  <2>1. SetRequest(r, "idle", None) /\ UNCHANGED <<inbox, acked, faults, remote>>
    BY <1>2 DEF PollApply
  <2>2. CASE Credit(d, 0, "poll")
    BY <2>1, <2>2, CreditTypes, RequestTypes DEF TypeOK, remote
  <2>3. CASE SetStatus(d, "expired") /\ UNCHANGED <<provider, purpose, amount, creditor, money>>
    BY <2>1, <2>3, RequestTypes DEF SetStatus, TypeOK, money, remote
  <2>4. CASE UNCHANGED <<row, money>>
    BY <2>1, <2>4, RequestTypes DEF TypeOK, row, money, remote
  <2> QED BY <1>2, <2>2, <2>3, <2>4 DEF PollApply
<1> QED BY <1>1, <1>2 DEF Poll, EndPoll

LEMMA DeskTypes == ASSUME TypeOK, Desk PROVE TypeOK'
<1> SUFFICES ASSUME NEW d \in Deposit, SweepExpired(d) \/ MarkPaid(d) \/ RefundDeposit(d)
             PROVE  TypeOK'
  BY DEF Desk
<1>1. CASE SweepExpired(d)
  BY <1>1 DEF SweepExpired, SetStatus, TypeOK, money, intake, remote
<1>2. CASE MarkPaid(d)
  BY <1>2 DEF MarkPaid, SetStatus, TypeOK, intake, remote
<1>3. CASE RefundDeposit(d)
  BY <1>3 DEF RefundDeposit, Refundable, SetStatus, TypeOK, intake, remote
<1> QED BY <1>1, <1>2, <1>3

LEMMA TypesKept == ASSUME TypeOK, [Next]_vars PROVE TypeOK'
<1>1. CASE Next
  BY <1>1, WorldTypes, WebhookTypes, PollTypes, DeskTypes DEF Next
<1>2. CASE UNCHANGED vars
  BY <1>2 DEF vars, row, money, intake, remote, TypeOK
<1> QED BY <1>1, <1>2

(* The type invariant: every column, request and event stays in its type;  *)
(* the refund of a deposit never overdraws the spendable balance.          *)
THEOREM DepositsTypeCorrect == Spec => []TypeOK
<1>1. Init => TypeOK
  BY InitTypes
<1>2. TypeOK /\ [Next]_vars => TypeOK'
  BY TypesKept
<1> QED BY <1>1, <1>2, PTL DEF Spec

-----------------------------------------------------------------------------
(* The books.                                                              *)

(* What deposit d adds to the sum of the paid deposits.                    *)
Share(d) == IF status[d] = "paid" THEN amount[d] ELSE 0

(* When only deposit d changes, the sum changes by what d adds to it.      *)
LEMMA SumUpdate ==
  ASSUME TypeOK, TypeOK', NEW d \in Deposit,
         \A e \in Deposit \ {d} : status'[e] = status[e] /\ amount'[e] = amount[e]
  PROVE  SumPaid \in Int /\ SumPaid' = SumPaid + (Share(d)' - Share(d))
<1> DEFINE f == [e \in Deposit |-> IF status[e] = "paid" THEN amount[e] ELSE 0]
           g == [e \in Deposit |-> IF status'[e] = "paid" THEN amount'[e] ELSE 0]
<1>1. NDeposits \in Nat
  BY DepositsAssumption
<1>2. f \in [1..NDeposits -> Int] /\ g \in [1..NDeposits -> Int]
  BY DEF TypeOK, Deposit
<1>3. SumPaid = Total(f, NDeposits) /\ SumPaid' = Total(g, NDeposits)
  BY DEF SumPaid
<1>4. /\ d \in 1..NDeposits
      /\ \A e \in 1..NDeposits : e # d => g[e] = f[e]
      /\ f[d] = Share(d) /\ g[d] = Share(d)'
  BY DEF Deposit, Share
<1> HIDE DEF f, g
<1>5. Total(f, NDeposits) \in Int
  BY <1>1, <1>2, TotalType
<1>6. Total(g, NDeposits) = Total(f, NDeposits) + (g[d] - f[d])
  BY <1>1, <1>2, <1>4, TotalUpdate
<1> QED BY <1>3, <1>4, <1>5, <1>6

(* A step that changes neither deposits nor money.                         *)
LEMMA BooksSame ==
  ASSUME Books, UNCHANGED <<status, amount, balance, trust, elsewhere>>
  PROVE  Books'
BY DEF Books, SumPaid

(* A step that changes deposit d, and the money by as much.                *)
LEMMA BooksMove ==
  ASSUME TypeOK, TypeOK', Books, NEW d \in Deposit,
         \A e \in Deposit \ {d} : status'[e] = status[e] /\ amount'[e] = amount[e],
         balance' + trust' + elsewhere'
           = balance + trust + elsewhere + (Share(d)' - Share(d))
  PROVE  Books'
<1>1. SumPaid \in Int /\ SumPaid' = SumPaid + (Share(d)' - Share(d))
  BY SumUpdate
<1>2. /\ balance \in Nat /\ trust \in Nat /\ elsewhere \in Nat /\ Funds \in Nat
      /\ Share(d) \in Nat /\ Share(d)' \in Nat
  BY DepositsAssumption DEF TypeOK, Share
<1> QED BY <1>1, <1>2 DEF Books

(* A deposit that was not paid is expired, or credited.                    *)
LEMMA BooksExpire ==
  ASSUME TypeOK, TypeOK', Books, NEW d \in Deposit,
         status[d] # "paid", SetStatus(d, "expired"), UNCHANGED <<amount, money>>
  PROVE  Books'
<1>1. Share(d) = 0 /\ Share(d)' = 0
  BY DEF Share, SetStatus, TypeOK
<1>2. \A e \in Deposit \ {d} : status'[e] = status[e] /\ amount'[e] = amount[e]
  BY DEF SetStatus, TypeOK
<1> QED BY <1>1, <1>2, BooksMove DEF money, TypeOK

LEMMA BooksCredit ==
  ASSUME TypeOK, TypeOK', Books, NEW d \in Deposit, status[d] # "paid",
         NEW s \in Nat, NEW who, Credit(d, s, who)
  PROVE  Books'
<1>1. Share(d) = 0 /\ Share(d)' = Credited(d, s) /\ Credited(d, s) \in Nat
  BY DEF Share, Credit, SetStatus, Credited, TypeOK
<1>2. \A e \in Deposit \ {d} : status'[e] = status[e] /\ amount'[e] = amount[e]
  BY DEF Credit, SetStatus, TypeOK
<1>3. /\ balance \in Nat /\ trust \in Nat /\ elsewhere' = elsewhere /\ elsewhere \in Nat
      /\ \/ balance' = balance + Credited(d, s) /\ trust' = trust
         \/ trust' = trust + Credited(d, s) /\ balance' = balance
  BY DEF Credit, TypeOK
<1>4. balance' + trust' + elsewhere'
        = balance + trust + elsewhere + (Share(d)' - Share(d))
  BY <1>1, <1>3
<1> QED BY <1>2, <1>4, BooksMove

LEMMA WorldBooks == ASSUME TypeOK, TypeOK', Books, World PROVE Books'
<1>1. ASSUME NEW d \in Deposit, NEW p \in {"cryptobot", "crystalpay"},
             NEW q \in {"wallet", "trust"}, NEW a \in Amounts, CreateDeposit(d, p, q, a)
      PROVE  Books'
  <2>1. Share(d) = 0 /\ Share(d)' = 0
    BY <1>1 DEF CreateDeposit, IsNext, SetStatus, Share, TypeOK
  <2>2. \A e \in Deposit \ {d} : status'[e] = status[e] /\ amount'[e] = amount[e]
    BY <1>1 DEF CreateDeposit, SetStatus, TypeOK
  <2>3. UNCHANGED money
    BY <1>1 DEF CreateDeposit
  <2> QED BY <2>1, <2>2, <2>3, BooksMove DEF money, TypeOK
<1>2. ASSUME NEW d \in Deposit, NEW s \in Sums, Pay(d, s) PROVE Books'
  BY <1>2, BooksSame DEF Pay, row, money
<1>3. ASSUME NEW d \in Deposit, Lapse(d) PROVE Books'
  BY <1>3, BooksSame DEF Lapse, row, money
<1>4. ASSUME NEW x \in Amounts, Spend(x) \/ Recover(x) PROVE Books'
  <2>1. /\ x \in Int /\ balance \in Int /\ elsewhere \in Int /\ trust \in Int
    BY DepositsAssumption DEF TypeOK
  <2>2. balance' + trust' + elsewhere' = balance + trust + elsewhere
    BY <1>4, <2>1 DEF Spend, Recover
  <2>3. SumPaid' = SumPaid
    BY <1>4 DEF Spend, Recover, row, SumPaid
  <2> QED BY <2>2, <2>3 DEF Books
<1> QED BY <1>1, <1>2, <1>3, <1>4 DEF World

LEMMA WebhookBooks == ASSUME TypeOK, TypeOK', Books, Webhook PROVE Books'
<1>1. ASSUME NEW u \in updates, AnswerDuplicate(u) PROVE Books'
  BY <1>1, BooksSame DEF AnswerDuplicate, row, money
<1>2. ASSUME NEW r \in Requests, Crash(r) PROVE Books'
  BY <1>2, BooksSame DEF Crash, row, money
<1>3. ASSUME NEW r \in Requests, NEW u \in updates,
             Accept(r, u) \/ Finish(r, u) \/ Fail(r, u)
      PROVE  Books'
  BY <1>3, BooksSame DEF Accept, Finish, Fail, row, money
<1>4. ASSUME NEW r \in Requests, NEW u \in updates, HandlePaid(r, u) PROVE Books'
  <2>1. u.deposit \in Deposit /\ u.sum \in Nat
    BY UpdateFields DEF TypeOK
  <2>2. CASE Creditable(u) /\ Credit(u.deposit, u.sum, "webhook")
    BY <2>1, <2>2, BooksCredit DEF Creditable
  <2>3. CASE UNCHANGED <<row, money>>
    BY <2>3, BooksSame DEF row, money
  <2> QED BY <1>4, <2>2, <2>3 DEF HandlePaid
<1>5. ASSUME NEW r \in Requests, NEW u \in updates, HandleExpired(r, u) PROVE Books'
  <2>1. u.deposit \in Deposit
    BY UpdateFields DEF TypeOK
  <2>2. UNCHANGED <<amount, money>>
    BY <1>5 DEF HandleExpired
  <2>3. CASE status[u.deposit] = "pending" /\ SetStatus(u.deposit, "expired")
    BY <2>1, <2>2, <2>3, BooksExpire
  <2>4. CASE UNCHANGED status
    BY <2>2, <2>4, BooksSame DEF money
  <2> QED BY <1>5, <2>3, <2>4 DEF HandleExpired
<1> QED BY <1>1, <1>2, <1>3, <1>4, <1>5 DEF Webhook, Handle

LEMMA PollBooks == ASSUME TypeOK, TypeOK', Books, Poll PROVE Books'
<1>1. ASSUME NEW r \in Requests, NEW d \in Deposit, PollAsk(r, d) PROVE Books'
  BY <1>1, BooksSame DEF PollAsk, row, money
<1>2. ASSUME NEW r \in Requests, NEW d \in Deposit, NEW s \in {"paid", "expired"},
             PollApply(r, d, s)
      PROVE  Books'
  <2>1. CASE StillPending(d) /\ Credit(d, 0, "poll")
    BY <2>1, BooksCredit DEF StillPending
  <2>2. CASE StillPending(d) /\ SetStatus(d, "expired") /\ UNCHANGED <<amount, money>>
    BY <2>2, BooksExpire DEF StillPending
  <2>3. CASE UNCHANGED <<row, money>>
    BY <2>3, BooksSame DEF row, money
  <2> QED BY <1>2, <2>1, <2>2, <2>3 DEF PollApply
<1> QED BY <1>1, <1>2 DEF Poll, EndPoll

LEMMA DeskBooks == ASSUME TypeOK, TypeOK', Books, Desk PROVE Books'
<1> SUFFICES ASSUME NEW d \in Deposit, SweepExpired(d) \/ MarkPaid(d) \/ RefundDeposit(d)
             PROVE  Books'
  BY DEF Desk
<1>1. CASE SweepExpired(d)
  BY <1>1, BooksExpire DEF SweepExpired
<1>2. CASE MarkPaid(d)
  <2>1. Share(d) = 0 /\ Share(d)' = amount[d]
    BY <1>2 DEF MarkPaid, SetStatus, Share, TypeOK
  <2>2. \A e \in Deposit \ {d} : status'[e] = status[e] /\ amount'[e] = amount[e]
    BY <1>2 DEF MarkPaid, SetStatus, TypeOK
  <2>3. balance' + trust' + elsewhere'
          = balance + trust + elsewhere + (Share(d)' - Share(d))
    BY <1>2, <2>1 DEF MarkPaid, TypeOK
  <2> QED BY <2>2, <2>3, BooksMove
<1>3. CASE RefundDeposit(d)
  <2>1. Share(d) = amount[d] /\ Share(d)' = 0
    BY <1>3 DEF RefundDeposit, Refundable, SetStatus, Share, TypeOK
  <2>2. \A e \in Deposit \ {d} : status'[e] = status[e] /\ amount'[e] = amount[e]
    BY <1>3 DEF RefundDeposit, SetStatus, TypeOK
  <2>3. balance' + trust' + elsewhere'
          = balance + trust + elsewhere + (Share(d)' - Share(d))
    BY <1>3, <2>1 DEF RefundDeposit, TypeOK
  <2> QED BY <2>2, <2>3, BooksMove
<1> QED BY <1>1, <1>2, <1>3

(* No deposit is booked twice and none is taken back by a late expiry: the *)
(* balances are what the paid deposits say, for every interleaving of      *)
(* webhooks, polls, the sweep and admins, and whatever requests die.       *)
THEOREM DepositsBookedOnce == Spec => []Books
<1> DEFINE Inv == TypeOK /\ Books
<1>1. Init => Inv
  <2> SUFFICES ASSUME Init PROVE Books
    BY InitTypes
  <2> DEFINE f == [d \in Deposit |-> IF status[d] = "paid" THEN amount[d] ELSE 0]
  <2>1. /\ NDeposits \in Nat /\ f \in [1..NDeposits -> Int]
        /\ \A d \in 1..NDeposits : f[d] = 0
    BY DepositsAssumption DEF Init, Deposit
  <2>2. SumPaid = Total(f, NDeposits)
    BY DEF SumPaid
  <2> HIDE DEF f
  <2>3. SumPaid = 0
    BY <2>1, <2>2, TotalZero
  <2> QED BY <2>3, DepositsAssumption DEF Init, Books
<1>2. ASSUME Inv, [Next]_vars PROVE Inv'
  <2>1. TypeOK'
    BY <1>2, TypesKept
  <2>2. CASE Next
    BY <1>2, <2>1, <2>2, WorldBooks, WebhookBooks, PollBooks, DeskBooks DEF Next
  <2>3. CASE UNCHANGED vars
    BY <1>2, <2>1, <2>3, BooksSame DEF vars, row, money
  <2> QED BY <1>2, <2>2, <2>3
<1>3. Inv => Books
  OBVIOUS
<1> QED BY <1>1, <1>2, <1>3, PTL DEF Spec

-----------------------------------------------------------------------------
(* Credits and payments.                                                   *)

(* Of the reports of an invoice only the last can be of its whole amount:  *)
(* a payer completes what is short, and nothing more.                      *)
Reports ==
  \A u \in updates : u.state = "paid" =>
    /\ status[u.deposit] # "none"
    /\ u.sum <= received[u.deposit]
    /\ Matches(u.sum, u.deposit) => u.sum = received[u.deposit]

Accounted == Reports /\ CreditedAsReceived

(* A step that reports no payment, credits nothing and lowers no amount.   *)
LEMMA AccountedSame ==
  ASSUME TypeOK, TypeOK', Accounted, UNCHANGED received,
         \A u \in updates' : u \in updates \/ u.state = "expired",
         \A d \in Deposit : /\ status[d] # "none" => status'[d] # "none" /\ amount'[d] = amount[d]
                            /\ status'[d] = "paid" /\ creditor'[d] = "webhook" =>
                                 status[d] = "paid" /\ creditor[d] = "webhook"
  PROVE  Accounted'
<1>1. \A u \in updates : u.deposit \in Deposit
  BY UpdateFields DEF TypeOK
<1>2. Reports'
  BY <1>1 DEF Accounted, Reports, Matches
<1>3. CreditedAsReceived'
  <2> SUFFICES ASSUME NEW d \in Deposit, status'[d] = "paid", creditor'[d] = "webhook"
               PROVE  received'[d] <= amount'[d] /\ amount'[d] <= received'[d] + Tolerance
    BY DEF CreditedAsReceived
  <2>1. status[d] = "paid" /\ creditor[d] = "webhook" /\ amount'[d] = amount[d]
    OBVIOUS
  <2> QED BY <2>1 DEF Accounted, CreditedAsReceived
<1> QED BY <1>2, <1>3 DEF Accounted

(* A credit raises the amount at most to the sum reported.                 *)
LEMMA CreditEffect ==
  ASSUME TypeOK, NEW d \in Deposit, NEW s \in Nat, NEW who, Credit(d, s, who)
  PROVE  /\ status'[d] = "paid" /\ creditor'[d] = who
         /\ amount'[d] = Credited(d, s) /\ amount[d] <= Credited(d, s)
         /\ \A e \in Deposit \ {d} : /\ status'[e] = status[e] /\ amount'[e] = amount[e]
                                     /\ creditor'[e] = creditor[e]
BY DEF Credit, SetStatus, Credited, TypeOK

LEMMA PayAccounted ==
  ASSUME TypeOK, TypeOK', Accounted, NEW d \in Deposit, NEW s \in Sums, Pay(d, s)
  PROVE  Accounted'
<1>1. /\ UNCHANGED <<status, amount, creditor>>
      /\ received'[d] = s /\ \A e \in Deposit \ {d} : received'[e] = received[e]
      /\ updates' = updates \cup {Payment(d, s)}
      /\ status[d] # "none" /\ received[d] < amount[d] - Tolerance /\ received[d] < s
  <2>1. /\ received[d] \in Nat /\ amount[d] \in Nat /\ s \in Nat /\ Tolerance \in Nat
    BY DepositsAssumption DEF TypeOK
  <2>2. /\ UNCHANGED <<status, amount, creditor>>
        /\ received'[d] = s /\ \A e \in Deposit \ {d} : received'[e] = received[e]
        /\ updates' = updates \cup {Payment(d, s)} /\ status[d] # "none"
    BY DEF Pay, row, TypeOK
  <2>3. ~(received[d] >= amount[d] - Tolerance) /\ s > received[d]
    BY DEF Pay, Matches
  <2> QED BY <2>1, <2>2, <2>3
<1>2. Tolerance \in Nat /\ s \in Nat
  BY DepositsAssumption
<1>3. Reports'
  <2> SUFFICES ASSUME NEW u \in updates', u.state = "paid"
               PROVE  /\ status'[u.deposit] # "none"
                      /\ u.sum <= received'[u.deposit]
                      /\ Matches(u.sum, u.deposit)' => u.sum = received'[u.deposit]
    BY DEF Reports
  <2>1. CASE u = Payment(d, s)
    BY <1>1, <1>2, <2>1 DEF Payment
  <2>2. CASE u \in updates /\ u.deposit # d
    BY <1>1, <2>2, UpdateFields DEF Accounted, Reports, Matches, TypeOK
  <2>3. CASE u \in updates /\ u.deposit = d
    <3>1. u.sum <= received[d] /\ u.sum \in Nat /\ received[d] \in Nat /\ amount[d] \in Nat
      BY <2>3, UpdateFields DEF Accounted, Reports, TypeOK
    <3>2. u.sum < s /\ ~(u.sum >= amount[d] - Tolerance)
      BY <1>1, <1>2, <3>1
    <3>3. u.sum <= s /\ ~Matches(u.sum, u.deposit)'
      BY <1>1, <1>2, <2>3, <3>1, <3>2 DEF Matches
    <3> QED BY <1>1, <2>3, <3>3
  <2> QED BY <1>1, <2>1, <2>2, <2>3
<1>4. CreditedAsReceived'
  <2> SUFFICES ASSUME NEW e \in Deposit, status[e] = "paid", creditor[e] = "webhook"
               PROVE  received'[e] <= amount[e] /\ amount[e] <= received'[e] + Tolerance
    BY <1>1 DEF CreditedAsReceived
  <2>1. received[e] <= amount[e] /\ amount[e] <= received[e] + Tolerance
    BY DEF Accounted, CreditedAsReceived
  <2>2. e # d
    BY <1>1, <1>2, <2>1 DEF TypeOK
  <2> QED BY <1>1, <2>1, <2>2
<1> QED BY <1>3, <1>4 DEF Accounted

LEMMA HandlePaidAccounted ==
  ASSUME TypeOK, TypeOK', Accounted, NEW r \in Requests, NEW u \in updates, HandlePaid(r, u)
  PROVE  Accounted'
<1> DEFINE d == u.deposit
<1>0. /\ d \in Deposit /\ u.sum \in Nat /\ Tolerance \in Nat
      /\ amount[d] \in Nat /\ received[d] \in Nat
  BY UpdateFields, DepositsAssumption DEF TypeOK
<1>1. u.state = "paid" /\ UNCHANGED <<received, updates>>
  BY DEF HandlePaid, remote
<1>2. CASE UNCHANGED <<row, money>>
  BY <1>1, <1>2, AccountedSame DEF row
<1>3. CASE Creditable(u) /\ Credit(d, u.sum, "webhook")
  <2>1. /\ status'[d] = "paid" /\ amount'[d] = Credited(d, u.sum) /\ amount[d] <= Credited(d, u.sum)
        /\ \A e \in Deposit \ {d} : /\ status'[e] = status[e] /\ amount'[e] = amount[e]
                                    /\ creditor'[e] = creditor[e]
    BY <1>0, <1>3, CreditEffect
  <2>2. u.sum = received[d] /\ u.sum >= amount[d] - Tolerance
    BY <1>1, <1>3 DEF Creditable, Matches, Accounted, Reports
  <2>3. received'[d] <= amount'[d] /\ amount'[d] <= received'[d] + Tolerance
    BY <1>0, <1>1, <2>1, <2>2 DEF Credited
  <2>4. CreditedAsReceived'
    BY <1>1, <2>1, <2>3 DEF Accounted, CreditedAsReceived
  <2>5. ASSUME NEW v \in updates, v.state = "paid"
        PROVE  /\ status'[v.deposit] # "none" /\ v.sum <= received[v.deposit]
               /\ Matches(v.sum, v.deposit)' => v.sum = received[v.deposit]
    <3>1. /\ v.deposit \in Deposit /\ v.sum \in Nat
          /\ amount[v.deposit] \in Nat /\ amount'[v.deposit] \in Nat
      BY UpdateFields DEF TypeOK
    <3>2. /\ status[v.deposit] # "none" /\ v.sum <= received[v.deposit]
          /\ Matches(v.sum, v.deposit) => v.sum = received[v.deposit]
      BY <2>5 DEF Accounted, Reports
    <3>3. amount[v.deposit] <= amount'[v.deposit] /\ status'[v.deposit] # "none"
      BY <2>1, <3>1, <3>2
    <3>4. Matches(v.sum, v.deposit)' => Matches(v.sum, v.deposit)
      BY <1>0, <3>1, <3>3 DEF Matches
    <3> QED BY <3>2, <3>3, <3>4
  <2>6. Reports'
    BY <1>1, <2>5 DEF Reports
  <2> QED BY <2>4, <2>6 DEF Accounted
<1> QED BY <1>2, <1>3 DEF HandlePaid

(* Webhooks credit what the provider has received, up to the tolerance, in *)
(* whatever order the reports of short and completed payments arrive.      *)
THEOREM CreditsMatchPayments == Spec => []CreditedAsReceived
<1> DEFINE Inv == TypeOK /\ Accounted
<1>1. Init => Inv
  BY InitTypes DEF Init, Accounted, Reports, CreditedAsReceived
<1>2. ASSUME Inv, [Next]_vars PROVE Inv'
  <2>0. TypeOK'
    BY <1>2, TypesKept
  <2>1. CASE World
    <3>1. ASSUME NEW d \in Deposit, NEW s \in Sums, Pay(d, s) PROVE Accounted'
      BY <1>2, <2>0, <3>1, PayAccounted
    <3>2. ASSUME NEW d \in Deposit, NEW p \in {"cryptobot", "crystalpay"},
                 NEW q \in {"wallet", "trust"}, NEW a \in Amounts, CreateDeposit(d, p, q, a)
          PROVE  Accounted'
      BY <1>2, <2>0, <3>2, AccountedSame
      DEF CreateDeposit, IsNext, SetStatus, remote, TypeOK
    <3>3. ASSUME NEW d \in Deposit, Lapse(d) PROVE Accounted'
      BY <1>2, <2>0, <3>3, AccountedSame DEF Lapse, Expiry, row
    <3>4. ASSUME NEW x \in Amounts, Spend(x) \/ Recover(x) PROVE Accounted'
      BY <1>2, <2>0, <3>4, AccountedSame DEF Spend, Recover, row, remote
    <3> QED BY <2>0, <2>1, <3>1, <3>2, <3>3, <3>4 DEF World
  <2>2. CASE Webhook
    <3>1. ASSUME NEW r \in Requests, NEW u \in updates, HandlePaid(r, u) PROVE Accounted'
      BY <1>2, <2>0, <3>1, HandlePaidAccounted
    <3>2. ASSUME NEW r \in Requests, NEW u \in updates, HandleExpired(r, u) PROVE Accounted'
      BY <1>2, <2>0, <3>2, AccountedSame, UpdateFields
      DEF HandleExpired, SetStatus, remote, TypeOK
    <3>3. ASSUME NEW r \in Requests, NEW u \in updates,
                 Accept(r, u) \/ Finish(r, u) \/ Fail(r, u)
          PROVE  Accounted'
      <4>1. UNCHANGED <<row, remote>>
        BY <3>3 DEF Accept, Finish, Fail
      <4> QED BY <1>2, <2>0, <4>1, AccountedSame DEF row, remote
    <3>4. ASSUME NEW u \in updates, AnswerDuplicate(u) PROVE Accounted'
      BY <1>2, <2>0, <3>4, AccountedSame DEF AnswerDuplicate, row, remote
    <3>5. ASSUME NEW r \in Requests, Crash(r) PROVE Accounted'
      BY <1>2, <2>0, <3>5, AccountedSame DEF Crash, row, remote
    <3> QED BY <2>0, <2>2, <3>1, <3>2, <3>3, <3>4, <3>5 DEF Webhook, Handle
  <2>3. CASE Poll
    <3>1. ASSUME NEW r \in Requests, NEW d \in Deposit, PollAsk(r, d) PROVE Accounted'
      BY <1>2, <2>0, <3>1, AccountedSame DEF PollAsk, row, remote
    <3>2. ASSUME NEW r \in Requests, NEW d \in Deposit, NEW s \in {"paid", "expired"},
                 PollApply(r, d, s)
          PROVE  Accounted'
      <4>1. UNCHANGED <<received, updates>>
        BY <3>2 DEF PollApply, remote
      <4>2. CASE Credit(d, 0, "poll")
        <5>1. Credited(d, 0) = amount[d]
          BY <1>2 DEF Credited, TypeOK
        <5>2. /\ status'[d] = "paid" /\ creditor'[d] = "poll" /\ amount'[d] = amount[d]
              /\ \A e \in Deposit \ {d} : /\ status'[e] = status[e] /\ amount'[e] = amount[e]
                                          /\ creditor'[e] = creditor[e]
          BY <1>2, <4>2, <5>1, CreditEffect
        <5> QED BY <1>2, <2>0, <4>1, <5>2, AccountedSame
      <4>3. CASE SetStatus(d, "expired") /\ UNCHANGED <<amount, creditor>>
        BY <1>2, <2>0, <4>1, <4>3, AccountedSame DEF SetStatus, TypeOK
      <4>4. CASE UNCHANGED <<row, money>>
        BY <1>2, <2>0, <4>1, <4>4, AccountedSame DEF row
      <4> QED BY <3>2, <4>2, <4>3, <4>4 DEF PollApply
    <3> QED BY <2>0, <2>3, <3>1, <3>2 DEF Poll, EndPoll
  <2>4. CASE Desk
    BY <1>2, <2>0, <2>4, AccountedSame
    DEF Desk, SweepExpired, MarkPaid, RefundDeposit, Refundable, SetStatus, remote, TypeOK
  <2>5. CASE UNCHANGED vars
    BY <1>2, <2>0, <2>5, AccountedSame DEF vars, row, remote
  <2> QED BY <1>2, <2>0, <2>1, <2>2, <2>3, <2>4, <2>5 DEF Next
<1>3. Inv => CreditedAsReceived
  BY DEF Accounted
<1> QED BY <1>1, <1>2, <1>3, PTL DEF Spec

-----------------------------------------------------------------------------
(* Closed deposits.                                                        *)

(* A step that pays no deposit that was not paid before.                   *)
NoneOpened ==
  \A d \in Deposit : status'[d] = "paid" =>
    status[d] \in {"paid", "pending"} \/ creditor'[d] = "admin" \/ provider[d] = "cryptobot"

LEMMA StepOpensNone == ASSUME TypeOK, [Next]_vars PROVE NoneOpened
<1>1. CASE UNCHANGED status
  BY <1>1 DEF NoneOpened
<1>2. ASSUME NEW d \in Deposit, NEW s \in {"pending", "expired", "refunded"}, SetStatus(d, s)
      PROVE  NoneOpened
  BY <1>2 DEF NoneOpened, SetStatus, TypeOK
<1>3. ASSUME NEW d \in Deposit, SetStatus(d, "paid"),
             \/ status[d] = "pending" \/ provider[d] = "cryptobot"
             \/ creditor' = [creditor EXCEPT ![d] = "admin"]
      PROVE  NoneOpened
  BY <1>3 DEF NoneOpened, SetStatus, TypeOK
<1>4. CASE World
  BY <1>1, <1>2, <1>4 DEF World, CreateDeposit, Pay, Lapse, Spend, Recover, row
<1>5. CASE Webhook
  <2>1. ASSUME NEW r \in Requests, NEW u \in updates, HandlePaid(r, u) PROVE NoneOpened
    <3>1. u.deposit \in Deposit
      BY UpdateFields DEF TypeOK
    <3>2. CASE Creditable(u) /\ Credit(u.deposit, u.sum, "webhook")
      BY <1>3, <3>1, <3>2 DEF Creditable, Credit, TypeOK
    <3>3. CASE UNCHANGED row
      BY <1>1, <3>3 DEF row
    <3> QED BY <2>1, <3>2, <3>3 DEF HandlePaid
  <2>2. ASSUME NEW r \in Requests, NEW u \in updates, HandleExpired(r, u) PROVE NoneOpened
    BY <1>1, <1>2, <2>2, UpdateFields DEF HandleExpired, TypeOK
  <2> QED BY <1>1, <1>5, <2>1, <2>2
          DEF Webhook, Handle, AnswerDuplicate, Crash, Accept, Finish, Fail, row
<1>6. CASE Poll
  <2>1. ASSUME NEW r \in Requests, NEW d \in Deposit, NEW s \in {"paid", "expired"},
               PollApply(r, d, s)
        PROVE  NoneOpened
    BY <1>1, <1>2, <1>3, <2>1 DEF PollApply, StillPending, Credit, row
  <2> QED BY <1>1, <1>6, <2>1 DEF Poll, EndPoll, PollAsk, row
<1>7. CASE Desk
  BY <1>2, <1>3, <1>7 DEF Desk, SweepExpired, MarkPaid, RefundDeposit
<1>8. CASE UNCHANGED vars
  BY <1>1, <1>8 DEF vars, row
<1> QED BY <1>4, <1>5, <1>6, <1>7, <1>8 DEF Next

(* A Crystalpay deposit that expired or was refunded is paid again by an   *)
(* admin only, over late, repeated and concurrent deliveries.              *)
THEOREM CrystalpayKeepsClosed == Spec => CrystalpayStaysClosed
<1>1. Init => TypeOK
  BY InitTypes
<1>2. TypeOK /\ [Next]_vars => TypeOK'
  BY TypesKept
<1>3. TypeOK /\ [Next]_vars =>
        [\A d \in Deposit :
           /\ provider[d] = "crystalpay" /\ status[d] \in {"expired", "refunded"}
           /\ status'[d] = "paid"
           => creditor'[d] = "admin"]_vars
  BY StepOpensNone DEF NoneOpened
<1> QED BY <1>1, <1>2, <1>3, PTL DEF Spec, CrystalpayStaysClosed
=============================================================================
